---- MODULE Spec2Model ----
(***************************************************************************)
(* SITES Spectral maintenance scripts on top of scripts/python/d1_client.py:*)
(* the relational store, the local JSON document, the pull / push / diff   *)
(* operations of scripts/python/sync_data.py, the exporter of              *)
(* scripts/python/export_station.py and the bulk loaders of                *)
(* scripts/python/bulk_import.py.                                          *)
(*                                                                         *)
(* Python dicts are functions whose DOMAIN is the set of keys present, so  *)
(* "field in local_data" is "field \in DOMAIN local_data".  None, JSON     *)
(* null and SQL NULL are the one value NULL.  Timestamps are clock ticks.  *)
(***************************************************************************)
EXTENDS Integers, Sequences, FiniteSets, TLC

VARIABLES stations, platforms, instruments, instrument_rois, now, file, edited, last,
          running

vars == <<stations, platforms, instruments, instrument_rois, now, file, edited, last,
          running>>

(* ------------------------------ bounds -------------------------------- *)

\* the run's horizon: operations start while the clock is below MaxClock
MaxClock == 2
\* rows in one bulk-load input file
MaxRows == 2

(* ------------------------------ values -------------------------------- *)

NULL == "NULL"
Values == {NULL, "", "a", "b"}
NoFile == [nofile |-> TRUE]
Acronyms == {"SVB", "ANS", "XXX"}
PlatformNames == {"PL01", "PL02"}
InstrumentNames == {"PHE01", "PHE02"}
\* collation of the names used as natural keys (ORDER BY on text columns)
NameOrder == <<NULL, "", "PHE01", "PHE02", "PHE99", "PL01", "PL02", "PL99",
               "ROI_00", "ROI_01", "ROI_02", "a", "b">>

Range(s) == {s[i] : i \in DOMAIN s}
Rank(n) == CHOOSE i \in DOMAIN NameOrder : NameOrder[i] = n

\* dict.get(key) and dict.get(key, default)
Get(d, k) == IF k \in DOMAIN d THEN d[k] ELSE NULL
GetOr(d, k, default) == IF k \in DOMAIN d THEN d[k] ELSE default
\* d[k] = v and del d[k]
SetKey(d, k, v) == [x \in DOMAIN d \cup {k} |-> IF x = k THEN v ELSE d[x]]
DelKey(d, k) == [x \in DOMAIN d \ {k} |-> d[x]]

(* --------------------------- allow-lists ------------------------------ *)

station_fields == <<"display_name", "description", "latitude", "longitude">>
platform_fields == <<"display_name", "description", "latitude", "longitude", "status">>
instrument_fields == <<"display_name", "description", "status", "serial_number">>
diff_station_fields == <<"display_name", "description", "latitude", "longitude">>
diff_platform_fields == <<"display_name", "status", "latitude", "longitude">>

(* ------------------------- Row Store Gateway -------------------------- *)

\* SELECT * FROM tbl WHERE col = val, in rowid order
Select(tbl, col, val) == SelectSeq(tbl, LAMBDA r : r[col] = val)

\* ... ORDER BY col (ties by rowid)
OrderBy(rows, col) ==
    SortSeq(rows, LAMBDA x, y : \/ Rank(x[col]) < Rank(y[col])
                                \/ Rank(x[col]) = Rank(y[col]) /\ x.id < y.id)

\* A query without ORDER BY may return its matches in any order, so the row
\* query_one takes as "first" is any of the matches: a picker maps each key
\* value that has a match to the id of the row returned first.
Pickers(tbl, col) ==
    LET keys == {r[col] : r \in Range(tbl)}
    IN  {f \in [keys -> {r.id : r \in Range(tbl)}] :
            \A k \in keys : \E r \in Range(tbl) : r.id = f[k] /\ r[col] = k}

\* query_one falling back to the first row of the table when the WHERE
\* clause matches none
QueryOneIdOrFirst(first, val) == IF val \in DOMAIN first THEN first[val] ELSE 1

\* query_one: the id of the first row, 0 for None
QueryOneId(first, val) == IF val \in DOMAIN first THEN first[val] ELSE 0

RowById(tbl, id) == CHOOSE r \in Range(tbl) : r.id = id
Ids(tbl) == {r.id : r \in Range(tbl)}

\* UPDATE tbl SET k = data[k], ... WHERE id = ?, rebuilt as INSERT OR REPLACE
\* that appends the new row version instead of updating in place
UpdateAsReplace(tbl, data, id) ==
    LET old == RowById(tbl, id)
        new == [k \in DOMAIN old |-> IF k \in DOMAIN data THEN data[k] ELSE old[k]]
    IN  Append(SelectSeq(tbl, LAMBDA r : r.id # id), [new EXCEPT !.id = Len(tbl) + 1])

\* the UPDATE carrying a precondition on the row's version: it changes the
\* row only when the row's updated_at is older than the one it sets
UpdateIfNewer(tbl, data, id) ==
    [i \in DOMAIN tbl |->
        IF tbl[i].id = id /\ ("updated_at" \in DOMAIN data => tbl[i].updated_at < data.updated_at)
        THEN [k \in DOMAIN tbl[i] |-> IF k \in DOMAIN data THEN data[k] ELSE tbl[i][k]]
        ELSE tbl[i]]

\* CloudflareD1Client.update with where = "id = ?"
update(tbl, data, id) ==
    [i \in DOMAIN tbl |->
        IF tbl[i].id = id
        THEN [k \in DOMAIN tbl[i] |-> IF k \in DOMAIN data THEN data[k] ELSE tbl[i][k]]
        ELSE tbl[i]]

\* meta.last_row_id of an INSERT: the rowid after the largest one
NextId(tbl) ==
    IF tbl = <<>> THEN 1
    ELSE 1 + (CHOOSE m \in Ids(tbl) : \A n \in Ids(tbl) : n <= m)

\* CloudflareD1Client.insert: INSERT INTO tbl (keys of data) VALUES (...);
\* the columns of the table that data does not name are NULL
insert(tbl, data) ==
    LET cols == IF tbl = <<>> THEN {} ELSE DOMAIN tbl[1]
        row == [id |-> NextId(tbl)] @@ data
    IN  Append(tbl, [c \in cols \cup DOMAIN row |-> IF c \in DOMAIN row THEN row[c] ELSE NULL])

(* ------------------------- Hierarchy Assembler ------------------------ *)

InstrumentDoc(inst, rois) ==
    [rois |-> OrderBy(Select(rois, "instrument_id", inst.id), "roi_name")] @@ inst

\* the instrument query without its WHERE platform_id = ? clause
PlatformDocUnscoped(plat, insts, rois) ==
    LET rows == OrderBy(insts, "normalized_name")
    IN  [instruments |-> [j \in DOMAIN rows |-> InstrumentDoc(rows[j], rois)]] @@ plat

PlatformDoc(plat, insts, rois) ==
    LET rows == OrderBy(Select(insts, "platform_id", plat.id), "normalized_name")
    IN  [instruments |-> [j \in DOMAIN rows |-> InstrumentDoc(rows[j], rois)]] @@ plat

\* the document pull_station writes for the station row with id sid
StationDoc(sid, st, plats, insts, rois, t) ==
    LET rows == OrderBy(Select(plats, "station_id", sid), "normalized_name")
    IN  [platforms |-> [i \in DOMAIN rows |-> PlatformDoc(rows[i], insts, rois)]]
        @@ ("_sync_meta" :> [pulled_at |-> t, source |-> "cloudflare_d1"])
        @@ RowById(st, sid)

RECURSIVE Total(_, _)
Total(counts, k) == IF k = 0 THEN 0 ELSE counts[k] + Total(counts, k - 1)

\* export_station_data: instruments of one platform, ORDER BY display_name
ExportPlatformDoc(plat, insts, rois) ==
    LET rows == OrderBy(Select(insts, "platform_id", plat.id), "display_name")
    IN  [instruments |-> [j \in DOMAIN rows |-> InstrumentDoc(rows[j], rois)]] @@ plat

\* the dict export_station_data returns for the station row with id sid
ExportDoc(sid, st, plats, insts, rois, t) ==
    LET rows == OrderBy(Select(plats, "station_id", sid), "display_name")
        docs == [i \in DOMAIN rows |-> ExportPlatformDoc(rows[i], insts, rois)]
        total_instruments == [i \in DOMAIN docs |-> Len(docs[i].instruments)]
        total_rois ==
            [i \in DOMAIN docs |->
                Total([j \in DOMAIN docs[i].instruments |-> Len(docs[i].instruments[j].rois)],
                      Len(docs[i].instruments))]
    IN  [platforms |-> docs]
        @@ ("_export_meta" :>
               [exported_at |-> t,
                platform_count |-> Len(rows),
                instrument_count |-> Total(total_instruments, Len(docs)),
                roi_count |-> Total(total_rois, Len(docs))])
        @@ RowById(st, sid)

(* ----------------------------- Reconciler ----------------------------- *)

\* the comparison loop run over every key of the local entity that is a
\* column of the row, instead of over the allow-list
FieldUpdatesAllKeys(fields, local, existing) ==
    LET ks == {f \in DOMAIN local \cap DOMAIN existing : local[f] # existing[f]}
    IN  [f \in ks |-> local[f]]

\* the dict of fields present in the local entity that differ from the row
FieldUpdates(fields, local, existing) ==
    LET ks == {f \in Range(fields) : f \in DOMAIN local /\ local[f] # Get(existing, f)}
    IN  [f \in ks |-> local[f]]

\* what the dry-run branch prints for one entity
DryRunLine(level, local, data) ==
    IF level = "station" THEN [level |-> level, updates |-> data]
    ELSE IF level = "platform"
         THEN [level |-> level, name |-> local.normalized_name, updates |-> data]
         ELSE [level |-> level, name |-> local.normalized_name]

TableOf(level) ==
    IF level = "station" THEN "stations"
    ELSE IF level = "platform" THEN "platforms" ELSE "instruments"

\* the UPDATE statement db.update sends for one entity
UpdateStmt(level, data, id) ==
    [kind |-> "update", table |-> TableOf(level), set |-> data, id |-> id]

\* the update sent without the counter being advanced
ExecuteUncounted(r, level, data, id) ==
    [r EXCEPT ![TableOf(level)] = update(@, data, id),
              !.stmts = Append(@, UpdateStmt(level, data, id)),
              !.calls = Append(@, UpdateStmt(level, data, id))]

\* the non-dry-run branch: db.update(table, updates, "id = ?", [id]), then
\* changes['updated'] += 1. The statement the store rejects (the one numbered
\* r.reject among the updates sent) makes execute raise: the row stays as it
\* was, the counter is not reached and nothing catches the exception.
Execute(r, level, data, id) ==
    IF r.reject = Len(r.stmts) + 1
    THEN [r EXCEPT !.raised = TRUE,
                   !.calls = Append(@, UpdateStmt(level, data, id))]
    ELSE [r EXCEPT ![TableOf(level)] = update(@, data, id),
                   !.stmts = Append(@, UpdateStmt(level, data, id)),
                   !.calls = Append(@, UpdateStmt(level, data, id)),
                   !.changes = [@ EXCEPT !.updated = @ + 1]]

\* the branch on dry_run, taken the wrong way round for a dry run
ApplyIgnoringDryRun(r, level, local, data, id, dry_run) ==
    Execute(r, level, data, id)

\* if dry_run: print(...) else: db.update(...); changes['updated'] += 1
Apply(r, level, local, data, id, dry_run) ==
    IF dry_run
    THEN [r EXCEPT !.out = Append(@, DryRunLine(level, local, data))]
    ELSE Execute(r, level, data, id)

\* if updates: updates['updated_at'] = utcnow(); then the branch on dry_run
Stamp(r, level, local, ups, id, dry_run) ==
    IF DOMAIN ups = {} THEN r
    ELSE Apply([r EXCEPT !.clock = @ + 1], level, local,
               [updated_at |-> r.clock] @@ ups, id, dry_run)

\* one matched entity: collect its updates, stamp updated_at, apply
EntityStep(r, level, fields, local, id, dry_run) ==
    Stamp(r, level, local,
          FieldUpdates(fields, local, RowById(r[TableOf(level)], id)), id, dry_run)

\* the query_one a loop sends to look an entity up by its name
LookupStmt(level, name) ==
    [kind |-> "query_one", table |-> TableOf(level), key |-> name]

Lookup(r, level, name) == [r EXCEPT !.calls = Append(@, LookupStmt(level, name))]

\* an exception raised by db.update leaves both loops at once
RECURSIVE InstrumentLoop(_, _, _, _, _)
InstrumentLoop(r, locals, j, dry_run, firstI) ==
    IF j > Len(locals) \/ r.raised THEN r
    ELSE LET id == QueryOneId(firstI, locals[j].normalized_name)
             rq == Lookup(r, "instrument", locals[j].normalized_name)
             r1 == IF id = 0 THEN rq
                   ELSE EntityStep(rq, "instrument", instrument_fields, locals[j], id, dry_run)
         IN  InstrumentLoop(r1, locals, j + 1, dry_run, firstI)

RECURSIVE PlatformLoop(_, _, _, _, _, _)
PlatformLoop(r, locals, i, dry_run, firstP, firstI) ==
    IF i > Len(locals) \/ r.raised THEN r
    ELSE LET id == QueryOneId(firstP, locals[i].normalized_name)
             rq == Lookup(r, "platform", locals[i].normalized_name)
             r1 == IF id = 0 THEN rq
                   ELSE InstrumentLoop(
                            EntityStep(rq, "platform", platform_fields, locals[i], id, dry_run),
                            GetOr(locals[i], "instruments", <<>>), 1, dry_run, firstI)
         IN  PlatformLoop(r1, locals, i + 1, dry_run, firstP, firstI)

\* changes = {'updated': 0, 'inserted': 0, 'deleted': 0} over the store as
\* the run finds it
PushStart(st, plats, insts, t, reject) ==
    [stations |-> st, platforms |-> plats, instruments |-> insts,
     changes |-> [updated |-> 0, inserted |-> 0, deleted |-> 0],
     stmts |-> <<>>, out |-> <<>>, clock |-> t,
     calls |-> <<>>, reject |-> reject, raised |-> FALSE]

\* the run inside a transaction that a rejected update rolls back
PushRunAtomic(local_data, sid, dry_run, firstP, firstI, st, plats, insts, t, reject) ==
    LET r0 == PushStart(st, plats, insts, t, reject)
        r1 == EntityStep(r0, "station", station_fields, local_data, sid, dry_run)
        r2 == PlatformLoop(r1, GetOr(local_data, "platforms", <<>>), 1, dry_run, firstP, firstI)
    IN  IF r2.raised
        THEN [r2 EXCEPT !.stations = st, !.platforms = plats, !.instruments = insts]
        ELSE r2

\* the run of push_station after the station row sid was found; reject is
\* the number of the update the store rejects, 0 when it rejects none
PushRun(local_data, sid, dry_run, firstP, firstI, st, plats, insts, t, reject) ==
    LET r0 == PushStart(st, plats, insts, t, reject)
        r1 == EntityStep(r0, "station", station_fields, local_data, sid, dry_run)
    IN  PlatformLoop(r1, GetOr(local_data, "platforms", <<>>), 1, dry_run, firstP, firstI)

(* --------------------------- Document Differ -------------------------- *)

DiffEntries(fields, local, row, tag) ==
    LET fs == SelectSeq(fields, LAMBDA f : Get(local, f) # Get(row, f))
    IN  [k \in DOMAIN fs |->
            tag @@ [field |-> fs[k], local |-> Get(local, fs[k]), database |-> Get(row, fs[k])]]

\* {p['normalized_name']: p for p in local_data.get('platforms', [])}
LocalPlatforms(local_data) ==
    LET ps == GetOr(local_data, "platforms", <<>>)
        names == {ps[i].normalized_name : i \in DOMAIN ps}
    IN  [n \in names |->
            ps[CHOOSE i \in DOMAIN ps :
                  /\ ps[i].normalized_name = n
                  /\ \A j \in DOMAIN ps : ps[j].normalized_name = n => j <= i]]

RECURSIVE DiffPlatforms(_, _, _)
DiffPlatforms(db_platforms, local_platforms, k) ==
    IF k > Len(db_platforms) THEN <<>>
    ELSE LET db_plat == db_platforms[k]
             here == IF db_plat.normalized_name \in DOMAIN local_platforms
                     THEN DiffEntries(diff_platform_fields,
                                      local_platforms[db_plat.normalized_name], db_plat,
                                      [platform |-> db_plat.normalized_name])
                     ELSE <<>>
         IN  here \o DiffPlatforms(db_platforms, local_platforms, k + 1)

\* the dict diff_station returns once the station row sid was found
Differences(local_data, sid, st, plats) ==
    [station |-> DiffEntries(diff_station_fields, local_data, RowById(st, sid), <<>>),
     platforms |-> DiffPlatforms(Select(plats, "station_id", sid),
                                 LocalPlatforms(local_data), 1),
     instruments |-> <<>>]

(* ----------------------------- Bulk Loader ---------------------------- *)

\* Python truthiness of a cell: None and the empty string are false
Falsy(v) == v \in {NULL, ""}
\* a or b
Or(a, b) == IF Falsy(a) THEN b ELSE a
\* row.get(k, default)
RowGet(row, k, default) == IF k \in DOMAIN row THEN row[k] ELSE default

\* float(s) on the cells the inputs carry: the text of a number parses to that
\* number, anything else raises ValueError
FloatOf == ("1.50" :> "1.5") @@ ("1.5" :> "1.5")
IsFloat(s) == s \in DOMAIN FloatOf

\* the two datetime.utcnow() reads of one row
Timestamps(t) == [created_at |-> t, updated_at |-> t + 1]

\* a run of a loader so far: the target table, the returned list, the error
\* list, the statements executed, the clock, and whether an exception left
\* the loop
LoadStart(tbl, t) ==
    [tbl |-> tbl, imported |-> <<>>, errors |-> <<>>, stmts |-> <<>>,
     clock |-> t, raised |-> FALSE]

\* the loop counting rows with enumerate(rows), from 0
RowErrorZeroBased(r, i, e) ==
    [r EXCEPT !.errors = Append(@, [row |-> i - 1, error |-> e])]

\* errors.append(f"Row {i}: ...")
RowError(r, i, e) ==
    [r EXCEPT !.errors = Append(@, [row |-> i, error |-> e])]

\* an exception leaves the loop and the function
Abort(r) == [r EXCEPT !.raised = TRUE]

\* the row read datetime.utcnow() for created_at and for updated_at
Read(r) == [r EXCEPT !.clock = @ + 2]

\* db.insert(table, data); data['id'] = last_row_id; imported.append(data)
InsertRow(r, table, data) ==
    [r EXCEPT !.tbl = insert(@, data),
              !.stmts = Append(@, [kind |-> "insert", table |-> table, data |-> data,
                                   id |-> NextId(r.tbl)]),
              !.imported = Append(@, [id |-> NextId(r.tbl)] @@ data)]

\* {p['normalized_name']: p['id'] for p in platforms} over every platform
\* row, the query having lost its WHERE station_id = ? clause
PlatformMapUnscoped(plats, sid) ==
    [n \in {plats[k].normalized_name : k \in DOMAIN plats} |->
        plats[CHOOSE k \in DOMAIN plats :
                 /\ plats[k].normalized_name = n
                 /\ \A j \in DOMAIN plats : plats[j].normalized_name = n => j <= k].id]

\* {p['normalized_name']: p['id'] for p in platforms} over the platforms
\* WHERE station_id = sid
PlatformMap(plats, sid) ==
    LET ps == Select(plats, "station_id", sid)
    IN  [n \in {ps[k].normalized_name : k \in DOMAIN ps} |->
            ps[CHOOSE k \in DOMAIN ps :
                  /\ ps[k].normalized_name = n
                  /\ \A j \in DOMAIN ps : ps[j].normalized_name = n => j <= k].id]

instrument_optional_fields ==
    <<"description", "serial_number", "manufacturer", "model",
      "latitude", "longitude", "installation_date">>

InstrumentData(row, platform_id, t) ==
    LET opt == {f \in Range(instrument_optional_fields) : f \in DOMAIN row /\ ~Falsy(row[f])}
    IN  [f \in opt |-> row[f]]
        @@ [platform_id |-> platform_id,
            normalized_name |-> row.normalized_name,
            display_name |-> RowGet(row, "display_name", row.normalized_name),
            instrument_type |-> row.instrument_type,
            status |-> RowGet(row, "status", "Active")]
        @@ Timestamps(t)

\* the insert of the non-dry-run branch taken whatever dry_run says
InstrumentRowStepNoDryRun(r, row, i, platform_map, dry_run, fail) ==
    LET platform_name == Or(Get(row, "platform_normalized_name"), Get(row, "platform"))
    IN  IF platform_name \notin DOMAIN platform_map
        THEN RowError(r, i, "platform not found")
        ELSE IF ~({"normalized_name", "instrument_type"} \subseteq DOMAIN row)
        THEN RowError(r, i, "KeyError")
        ELSE IF i = fail
        THEN RowError(Read(r), i, "D1 query failed")
        ELSE InsertRow(Read(r), "instruments",
                       InstrumentData(row, platform_map[platform_name], r.clock))

\* one pass of the try block of import_instruments for row i; fail is the
\* row whose INSERT the store rejects
InstrumentRowStep(r, row, i, platform_map, dry_run, fail) ==
    LET platform_name == Or(Get(row, "platform_normalized_name"), Get(row, "platform"))
    IN  IF platform_name \notin DOMAIN platform_map
        THEN RowError(r, i, "platform not found")
        ELSE IF ~({"normalized_name", "instrument_type"} \subseteq DOMAIN row)
        THEN RowError(r, i, "KeyError")
        ELSE LET data == InstrumentData(row, platform_map[platform_name], r.clock)
             IN  IF dry_run
                 THEN [Read(r) EXCEPT !.imported = Append(@, data)]
                 ELSE IF i = fail
                 THEN RowError(Read(r), i, "D1 query failed")
                 ELSE InsertRow(Read(r), "instruments", data)

RECURSIVE InstrumentRows(_, _, _, _, _, _)
InstrumentRows(r, rows, i, platform_map, dry_run, fail) ==
    IF i > Len(rows) THEN r
    ELSE InstrumentRows(InstrumentRowStep(r, rows[i], i, platform_map, dry_run, fail),
                        rows, i + 1, platform_map, dry_run, fail)

PlatformData(row, station_id, t) ==
    [f \in {"description"} \cap DOMAIN row |-> row[f]]
    @@ [f \in {"latitude", "longitude"} \cap DOMAIN row |-> FloatOf[row[f]]]
    @@ [station_id |-> station_id,
        normalized_name |-> row.normalized_name,
        display_name |-> RowGet(row, "display_name", row.normalized_name),
        platform_type |-> RowGet(row, "platform_type", "fixed"),
        ecosystem_code |-> RowGet(row, "ecosystem_code", "FOR"),
        status |-> RowGet(row, "status", "Active")]
    @@ Timestamps(t)

\* the loop body of import_platforms for row i: no exception is caught
PlatformRowStep(r, row, i, station_id, dry_run, fail) ==
    IF "normalized_name" \notin DOMAIN row
    THEN Abort(r)
    ELSE IF \E f \in {"latitude", "longitude"} \cap DOMAIN row : ~IsFloat(row[f])
    THEN Abort(Read(r))
    ELSE LET data == PlatformData(row, station_id, r.clock)
         IN  IF dry_run
             THEN [Read(r) EXCEPT !.imported = Append(@, data)]
             ELSE IF i = fail
             THEN Abort(Read(r))
             ELSE InsertRow(Read(r), "platforms", data)

RECURSIVE PlatformRows(_, _, _, _, _, _)
PlatformRows(r, rows, i, station_id, dry_run, fail) ==
    IF i > Len(rows) \/ r.raised THEN r
    ELSE PlatformRows(PlatformRowStep(r, rows[i], i, station_id, dry_run, fail),
                      rows, i + 1, station_id, dry_run, fail)

RoiData(row, instrument_id, t) ==
    [instrument_id |-> instrument_id,
     roi_name |-> row.roi_name,
     description |-> RowGet(row, "description", ""),
     polygon_points |-> RowGet(row, "polygon_points", "[]"),
     color |-> RowGet(row, "color", "#FF0000")]
    @@ Timestamps(t)

\* the loop body of import_rois for row i: no exception is caught
RoiRowStep(r, row, i, instrument_id, dry_run, fail) ==
    IF "roi_name" \notin DOMAIN row
    THEN Abort(r)
    ELSE LET data == RoiData(row, instrument_id, r.clock)
         IN  IF dry_run
             THEN [Read(r) EXCEPT !.imported = Append(@, data)]
             ELSE IF i = fail
             THEN Abort(Read(r))
             ELSE InsertRow(Read(r), "instrument_rois", data)

RECURSIVE RoiRows(_, _, _, _, _, _)
RoiRows(r, rows, i, instrument_id, dry_run, fail) ==
    IF i > Len(rows) \/ r.raised THEN r
    ELSE RoiRows(RoiRowStep(r, rows[i], i, instrument_id, dry_run, fail),
                 rows, i + 1, instrument_id, dry_run, fail)

(* ------------------------------ the store ----------------------------- *)

Store == [stations |-> stations, platforms |-> platforms,
          instruments |-> instruments, instrument_rois |-> instrument_rois]

StationRow(id, acr, v, d) ==
    [id |-> id, acronym |-> acr, display_name |-> v, description |-> d,
     latitude |-> "a", longitude |-> "a", status |-> "a", updated_at |-> 0]

PlatformRow(id, sid, name, v, d) ==
    [id |-> id, station_id |-> sid, normalized_name |-> name, display_name |-> v,
     description |-> d, latitude |-> "a", longitude |-> "a", status |-> "a",
     location_code |-> "a", updated_at |-> 0]

InstrumentRow(id, pid, name, v, d) ==
    [id |-> id, platform_id |-> pid, normalized_name |-> name, display_name |-> v,
     description |-> d, status |-> "a", serial_number |-> NULL,
     instrument_type |-> "a", updated_at |-> 0]

RoiRow(id, iid, name) == [id |-> id, instrument_id |-> iid, roi_name |-> name]

\* Initial layouts: natural keys are unique within their parent scope, not
\* across scopes.  Each layout is <<station of platform 2, name of platform 2,
\* platform of instrument 2, name of instrument 2>>; platform 1 is PL01 of
\* station 1 and instrument 1 is PHE01 of platform 1.
InitLayouts ==
    {<<1, "PL02", 1, "PHE02">>,    \* one station holds everything
     <<1, "PL02", 2, "PHE01">>,    \* one instrument name under two platforms
     <<2, "PL01", 2, "PHE01">>,    \* one platform name under two stations
     <<2, "PL02", 2, "PHE02">>}    \* every name is globally unique

InitPlatforms(l) ==
    <<PlatformRow(1, 1, "PL01", "a", NULL), PlatformRow(2, l[1], l[2], "b", "")>>

InitInstruments(l) ==
    <<InstrumentRow(1, 1, "PHE01", "a", NULL), InstrumentRow(2, l[3], l[4], "b", "")>>

\* the operators' processes that push at the same time, none of them started
Procs == {"A", "B"}
NotRunning == [p \in Procs |-> [pc |-> "idle"]]

NoOp == [op |-> "none", station |-> "", dry_run |-> FALSE, cand |-> NoFile,
         raised |-> FALSE, ret |-> NULL, stmts |-> <<>>, out |-> <<>>,
         pre |-> NULL, firstP |-> <<>>, firstI |-> <<>>, calls |-> <<>>]

InitStations == <<StationRow(1, "SVB", "a", NULL), StationRow(2, "ANS", "b", "")>>

Init ==
    /\ stations = InitStations
    /\ \E l \in InitLayouts :
          /\ platforms = InitPlatforms(l)
          /\ instruments = InitInstruments(l)
    /\ instrument_rois = <<RoiRow(1, 1, "ROI_01"), RoiRow(2, 1, "ROI_00")>>
    /\ now = 1
    /\ file = NoFile
    /\ edited = FALSE
    /\ last = NoOp
    /\ running = NotRunning

(* --------------------------- the local file --------------------------- *)

\* keys a hand edit may set or remove at each level: allow-listed ones and
\* one column outside every allow-list (latitude and longitude sit in the
\* same lists as display_name and are left as pulled)
StationEditKeys == {"display_name", "description", "status"}
PlatformEditKeys == {"display_name", "description", "status", "location_code"}
InstrumentEditKeys == {"display_name", "serial_number", "instrument_type"}

RemoveAt(s, i) == SubSeq(s, 1, i - 1) \o SubSeq(s, i + 1, Len(s))

KeyEdits(e, keys) ==
    {SetKey(e, k, v) : k \in keys, v \in Values} \cup {DelKey(e, k) : k \in keys}

\* entities a hand edit may add: a platform with at most one instrument, an
\* instrument, under a name not used by a sibling
NewInstrument(m) == [normalized_name |-> m, status |-> "b"]
NewPlatforms(n) ==
    {[normalized_name |-> n, status |-> "b"]} \cup
    {[normalized_name |-> n, status |-> "b", instruments |-> <<NewInstrument(m)>>] :
        m \in InstrumentNames \cup {"PHE99"}}

SiblingNames(es) == {es[i].normalized_name : i \in DOMAIN es}

InstrumentListEdits(is) ==
    UNION {{[is EXCEPT ![j] = e] : e \in KeyEdits(is[j], InstrumentEditKeys)} : j \in DOMAIN is}
    \cup {RemoveAt(is, j) : j \in DOMAIN is}
    \cup {Append(is, NewInstrument(m)) : m \in (InstrumentNames \cup {"PHE99"}) \ SiblingNames(is)}

PlatformListEdits(ps) ==
    UNION {{[ps EXCEPT ![i] = e] : e \in KeyEdits(ps[i], PlatformEditKeys)} : i \in DOMAIN ps}
    \cup UNION {{[ps EXCEPT ![i] = SetKey(ps[i], "instruments", is)] :
                    is \in InstrumentListEdits(GetOr(ps[i], "instruments", <<>>))} : i \in DOMAIN ps}
    \cup {RemoveAt(ps, i) : i \in DOMAIN ps}
    \cup UNION {{Append(ps, p) : p \in NewPlatforms(n)} :
                    n \in (PlatformNames \cup {"PL99"}) \ SiblingNames(ps)}

\* the documents one hand edit of d can produce
EditedDocs(d) ==
    KeyEdits(d, StationEditKeys)
    \cup {DelKey(d, "platforms")}
    \cup {SetKey(d, "platforms", ps) : ps \in PlatformListEdits(GetOr(d, "platforms", <<>>))}

(* ------------------------------ operations ---------------------------- *)

Done(op, acr, dry_run, raised, ret, stmts, out, firstP, firstI) ==
    [op |-> op, station |-> acr, dry_run |-> dry_run, cand |-> file,
     raised |-> raised, ret |-> ret, stmts |-> stmts, out |-> out,
     pre |-> Store, firstP |-> firstP, firstI |-> firstI, calls |-> <<>>]

\* pull_station(station_acronym): writes the assembled document to the file
pull_station(acr, firstS) ==
    LET sid == QueryOneId(firstS, acr)
        doc == StationDoc(sid, stations, platforms, instruments, instrument_rois, now)
    IN  /\ now < MaxClock
        /\ IF sid = 0
           THEN /\ file' = file
                /\ last' = Done("pull", acr, FALSE, TRUE, NULL, <<>>, <<>>, <<>>, <<>>)
           ELSE /\ file' = doc
                /\ last' = Done("pull", acr, FALSE, FALSE, doc, <<>>, <<>>, <<>>, <<>>)
        /\ UNCHANGED <<stations, platforms, instruments, instrument_rois, now, edited, running>>

\* the operator edits the local file by hand
EditFile ==
    /\ file # NoFile
    /\ now < MaxClock
    /\ ~edited
    /\ file' \in EditedDocs(file)
    /\ edited' = TRUE
    /\ UNCHANGED <<stations, platforms, instruments, instrument_rois, now, last, running>>

\* push_station(station_acronym, input_file, dry_run); the store rejects
\* the update numbered reject (none when 0)
push_station(acr, dry_run, firstS, firstP, firstI, reject) ==
    LET sid == QueryOneId(firstS, acr)
    IN  /\ file # NoFile
        /\ now < MaxClock
        /\ IF sid = 0
           THEN /\ last' = Done("push", acr, dry_run, TRUE, NULL, <<>>, <<>>, firstP, firstI)
                /\ UNCHANGED <<stations, platforms, instruments, now>>
           ELSE \E r \in {PushRun(file, sid, dry_run, firstP, firstI,
                                  stations, platforms, instruments, now, reject)} :
                /\ stations' = r.stations
                /\ platforms' = r.platforms
                /\ instruments' = r.instruments
                /\ now' = IF dry_run THEN now ELSE r.clock
                /\ last' = [Done("push", acr, dry_run, r.raised,
                                 IF r.raised THEN NULL ELSE r.changes,
                                 r.stmts, r.out, firstP, firstI)
                            EXCEPT !.calls = r.calls]
        /\ UNCHANGED <<instrument_rois, file, edited, running>>

\* diff_station(station_acronym, local_file)
diff_station(acr, firstS) ==
    LET sid == QueryOneId(firstS, acr)
    IN  /\ file # NoFile
        /\ now < MaxClock
        /\ IF sid = 0
           THEN last' = Done("diff", acr, FALSE, TRUE, NULL, <<>>, <<>>, <<>>, <<>>)
           ELSE last' = Done("diff", acr, FALSE, FALSE,
                             Differences(file, sid, stations, platforms), <<>>, <<>>, <<>>, <<>>)
        /\ UNCHANGED <<stations, platforms, instruments, instrument_rois, now, file, edited, running>>

\* export_station_data(station_acronym, output_file): returns the assembled
\* dict and writes it when an output file is given
export_station_data(acr, write, firstS) ==
    LET sid == QueryOneId(firstS, acr)
        doc == ExportDoc(sid, stations, platforms, instruments, instrument_rois, now)
    IN  /\ now < MaxClock
        /\ IF sid = 0
           THEN /\ file' = file
                /\ last' = Done("export", acr, FALSE, TRUE, NULL, <<>>, <<>>, <<>>, <<>>)
           ELSE /\ file' = IF write THEN doc ELSE file
                /\ last' = Done("export", acr, FALSE, FALSE, doc, <<>>, <<>>, <<>>, <<>>)
        /\ UNCHANGED <<stations, platforms, instruments, instrument_rois, now, edited, running>>

\* wall-clock time passes between two commands
Tick ==
    /\ now < MaxClock
    /\ now' = now + 1
    /\ UNCHANGED <<stations, platforms, instruments, instrument_rois, file, edited, last, running>>

Next ==
    \/ \E acr \in Acronyms, firstS \in Pickers(stations, "acronym") :
          pull_station(acr, firstS)
    \/ EditFile
    \/ \E acr \in Acronyms, dry_run \in BOOLEAN,
          firstS \in Pickers(stations, "acronym"),
          firstP \in Pickers(platforms, "normalized_name"),
          firstI \in Pickers(instruments, "normalized_name") :
          push_station(acr, dry_run, firstS, firstP, firstI, 0)
    \/ \E acr \in Acronyms, firstS \in Pickers(stations, "acronym") :
          diff_station(acr, firstS)

Spec == Init /\ [][Next]_vars

\* The store may reject an update of a real push (a constraint, a lost
\* connection, an expired token): any one of the updates the run sends.
Rejectable(acr, dry_run, firstS, firstP, firstI) ==
    LET sid == QueryOneId(firstS, acr)
    IN  IF file = NoFile \/ sid = 0 \/ dry_run THEN {}
        ELSE 1..Len(PushRun(file, sid, dry_run, firstP, firstI,
                            stations, platforms, instruments, now, 0).stmts)

NextFail ==
    \/ \E acr \in Acronyms, firstS \in Pickers(stations, "acronym") :
          pull_station(acr, firstS)
    \/ EditFile
    \/ \E acr \in Acronyms, dry_run \in BOOLEAN,
          firstS \in Pickers(stations, "acronym"),
          firstP \in Pickers(platforms, "normalized_name"),
          firstI \in Pickers(instruments, "normalized_name") :
          \E reject \in {0} \cup Rejectable(acr, dry_run, firstS, firstP, firstI) :
              push_station(acr, dry_run, firstS, firstP, firstI, reject)

SpecFail == Init /\ [][NextFail]_vars

(* ------------------ pushes of two operators at once ------------------- *)

\* the candidates an operator pushes: the station's document with one
\* allow-listed field of the station or of its first platform set by hand
OperatorEdits(d) ==
    {SetKey(d, k, "b") : k \in {"display_name", "description"}}
    \cup {SetKey(d, "platforms", [d.platforms EXCEPT ![1] = SetKey(@, k, "b")]) :
             k \in {x \in {"description", "status"} : d.platforms # <<>>}}

\* the entities the two loops of push_station visit, in order; an instrument
\* carries the position of its platform
RECURSIVE Visits(_, _)
Visits(locals, i) ==
    IF i > Len(locals) THEN <<>>
    ELSE LET insts == GetOr(locals[i], "instruments", <<>>)
         IN  <<[level |-> "platform", local |-> locals[i], parent |-> i]>>
             \o [j \in DOMAIN insts |->
                    [level |-> "instrument", local |-> insts[j], parent |-> i]]
             \o Visits(locals, i + 1)

FieldsOf(level) ==
    IF level = "station" THEN station_fields
    ELSE IF level = "platform" THEN platform_fields ELSE instrument_fields

\* the ids query_one may return for a key: any matching row, 0 for None
QueryOneIds(tbl, col, val) ==
    IF \E r \in Range(tbl) : r[col] = val
    THEN {r.id : r \in {x \in Range(tbl) : x[col] = val}}
    ELSE {0}

\* process p runs push_station(acr, file, dry_run): the file is read.  The
\* operators prepared their files before either push reached the store.
Begin(p, acr, cand, dry_run) ==
    /\ running[p].pc = "idle"
    /\ \A o \in Procs : running[o].pc \in {"idle", "lookup"}
    /\ running' = [running EXCEPT ![p] =
                      [pc |-> "lookup", station |-> acr, cand |-> cand,
                       dry_run |-> dry_run, pre |-> Store,
                       todo |-> Visits(GetOr(cand, "platforms", <<>>), 1),
                       pend |-> <<>>, stmts |-> <<>>, out |-> <<>>,
                       changes |-> [updated |-> 0, inserted |-> 0, deleted |-> 0]]]
    /\ UNCHANGED <<stations, platforms, instruments, instrument_rois, now, file, edited, last>>

\* the comparison of one entity with the row just read, up to the branch on
\* dry_run: the process is left about to send its update, or at the next
\* lookup
Compared(q, level, local, row, t) ==
    LET ups == FieldUpdates(FieldsOf(level), local, row)
        data == [updated_at |-> t] @@ ups
    IN  IF DOMAIN ups = {} THEN [q EXCEPT !.pc = "query"]
        ELSE IF q.dry_run
        THEN [q EXCEPT !.pc = "query", !.out = Append(@, DryRunLine(level, local, data))]
        ELSE [q EXCEPT !.pc = "update", !.pend = UpdateStmt(level, data, row.id)]

\* utcnow() is read when an update is built outside a dry run
Clock(q) == IF q.pc = "update" THEN now + 1 ELSE now

\* the gateway call that reads the station row
QueryStation(p) ==
    /\ running[p].pc = "lookup"
    /\ \E sid \in QueryOneIds(stations, "acronym", running[p].station) :
          \E q \in {IF sid = 0 THEN [running[p] EXCEPT !.pc = "raised"]
                    ELSE Compared(running[p], "station", running[p].cand,
                                  RowById(stations, sid), now)} :
             /\ running' = [running EXCEPT ![p] = q]
             /\ now' = Clock(q)
    /\ UNCHANGED <<stations, platforms, instruments, instrument_rois, file, edited, last>>

\* the entities left once the head of todo was visited; an unmatched platform
\* takes its instruments with it
Rest(todo, found) ==
    IF found \/ todo[1].level = "instrument" THEN Tail(todo)
    ELSE SelectSeq(Tail(todo), LAMBDA v : v.parent # todo[1].parent)

\* the gateway call that reads the row of the next platform or instrument
QueryEntity(p) ==
    /\ running[p].pc = "query"
    /\ running[p].todo # <<>>
    /\ LET v == running[p].todo[1]
           tbl == Store[TableOf(v.level)]
       IN  \E id \in QueryOneIds(tbl, "normalized_name", v.local.normalized_name) :
              \E q \in {IF id = 0
                        THEN [running[p] EXCEPT !.todo = Rest(@, FALSE)]
                        ELSE Compared([running[p] EXCEPT !.todo = Rest(@, TRUE)],
                                      v.level, v.local, RowById(tbl, id), now)} :
                 /\ running' = [running EXCEPT ![p] = q]
                 /\ now' = Clock(q)
    /\ UNCHANGED <<stations, platforms, instruments, instrument_rois, file, edited, last>>

\* the gateway call that sends the pending update, then changes['updated'] += 1
SendUpdate(p) ==
    /\ running[p].pc = "update"
    /\ LET stmt == running[p].pend
           after == [Store EXCEPT ![stmt.table] = update(@, stmt.set, stmt.id)]
       IN  /\ stations' = after.stations
           /\ platforms' = after.platforms
           /\ instruments' = after.instruments
           /\ running' = [running EXCEPT ![p] =
                             [@ EXCEPT !.pc = "query", !.stmts = Append(@, stmt),
                                       !.changes = [@ EXCEPT !.updated = @ + 1]]]
    /\ UNCHANGED <<instrument_rois, now, file, edited, last>>

\* the loops are over: the summary is printed and returned
Finish(p) ==
    /\ running[p].pc = "query"
    /\ running[p].todo = <<>>
    /\ running' = [running EXCEPT ![p] = [@ EXCEPT !.pc = "done"]]
    /\ UNCHANGED <<stations, platforms, instruments, instrument_rois, now, file, edited, last>>

\* the candidates of a push to acr: made from the document of that station,
\* of the first station when acr names none
CandidatesFor(acr) ==
    LET ids == QueryOneIds(stations, "acronym", acr)
        sid == IF ids = {0} THEN 1 ELSE CHOOSE i \in ids : TRUE
    IN  OperatorEdits(StationDoc(sid, stations, platforms, instruments, instrument_rois, now))

NextConcurrent ==
    \/ \E p \in Procs, acr \in Acronyms, dry_run \in BOOLEAN :
          \E cand \in CandidatesFor(acr) : Begin(p, acr, cand, dry_run)
    \/ \E p \in Procs : QueryStation(p)
    \/ \E p \in Procs : QueryEntity(p)
    \/ \E p \in Procs : SendUpdate(p)
    \/ \E p \in Procs : Finish(p)

\* the store in which every natural key is unique, so that each lookup of
\* the two pushes has one answer
InitConcurrent ==
    /\ Init
    /\ platforms = InitPlatforms(<<2, "PL02", 2, "PHE02">>)
    /\ instruments = InitInstruments(<<2, "PL02", 2, "PHE02">>)

SpecConcurrent == InitConcurrent /\ [][NextConcurrent]_vars

(* ------------------- the gateway called by a script ------------------- *)

\* rows a table may hold when an INSERT is sent
MaxStored == 3

\* What the backend answers to a statement: NoFault when it runs it, else a
\* failure reported either by the HTTP status or, under status 200, by
\* "success": false; both carry an "errors" payload.
NoFault == [status |-> 200, success |-> TRUE]
Faults == {[status |-> 500, success |-> FALSE, errors |-> <<"e1">>],
           [status |-> 200, success |-> FALSE, errors |-> <<"e2">>]}

\* the statements of the client's methods over one table
Statements ==
    {[kind |-> "select", table |-> "platforms", col |-> "status", val |-> v] : v \in {"a", "b"}}
    \cup {[kind |-> "count", table |-> "platforms", col |-> "status", val |-> v] : v \in {"a", "b"}}
    \cup {[kind |-> "insert", table |-> "platforms", data |-> [normalized_name |-> "PL99"]]}
    \cup {[kind |-> "update", table |-> "platforms", set |-> [status |-> "b"], id |-> i] : i \in {1, 3}}
    \cup {[kind |-> "delete", table |-> "platforms", id |-> i] : i \in {2, 3}}

\* the result set and the tables after the backend ran a statement
Run(tables, stmt) ==
    LET tbl == tables[stmt.table]
        hit == IF stmt.kind \in {"update", "delete"}
               THEN Len(SelectSeq(tbl, LAMBDA r : r.id = stmt.id)) ELSE 0
    IN  CASE stmt.kind = "select" ->
               [tables |-> tables,
                set |-> [results |-> Select(tbl, stmt.col, stmt.val), success |-> TRUE,
                         meta |-> [changes |-> 0, last_row_id |-> 0]]]
          [] stmt.kind = "count" ->
               [tables |-> tables,
                set |-> [results |-> <<[count |-> Len(Select(tbl, stmt.col, stmt.val))]>>,
                         success |-> TRUE, meta |-> [changes |-> 0, last_row_id |-> 0]]]
          [] stmt.kind = "insert" ->
               [tables |-> [tables EXCEPT ![stmt.table] = insert(@, stmt.data)],
                set |-> [results |-> <<>>, success |-> TRUE,
                         meta |-> [changes |-> 1, last_row_id |-> NextId(tbl)]]]
          [] stmt.kind = "update" ->
               [tables |-> [tables EXCEPT ![stmt.table] = update(@, stmt.set, stmt.id)],
                set |-> [results |-> <<>>, success |-> TRUE,
                         meta |-> [changes |-> hit, last_row_id |-> 0]]]
          [] stmt.kind = "delete" ->
               [tables |-> [tables EXCEPT
                              ![stmt.table] = SelectSeq(@, LAMBDA r : r.id # stmt.id)],
                set |-> [results |-> <<>>, success |-> TRUE,
                         meta |-> [changes |-> hit, last_row_id |-> 0]]]

\* requests.post(url, headers, json=payload): the HTTP response and the
\* tables behind the backend after it
Post(tables, stmt, fault) ==
    IF fault = NoFault
    THEN [tables |-> Run(tables, stmt).tables, status |-> 200,
          json |-> [success |-> TRUE, result |-> <<Run(tables, stmt).set>>]]
    ELSE [tables |-> tables, status |-> fault.status,
          json |-> [success |-> FALSE, errors |-> fault.errors]]

\* None where a row is expected
NoRow == [none |-> TRUE]

\* a call that returned, and a call that raised
Return(x, v) == [x EXCEPT !.value = v]
Raise(x, e) == [x EXCEPT !.raised = TRUE, !.error = e, !.value = NULL]

\* what the client does with one response
Answer(x, response) ==
    IF response.status >= 400
    THEN Raise(x, [type |-> "HTTPError", response |-> [status |-> response.status,
                                                       json |-> response.json]])
    ELSE IF ~response.json.success
    THEN Raise(x, [type |-> "Exception", errors |-> GetOr(response.json, "errors", <<>>)])
    ELSE IF response.json.result # <<>>
    THEN Return(x, response.json.result[1])
    ELSE Return(x, [results |-> <<>>, success |-> TRUE, meta |-> <<>>])

\* execute posting the statement again when the backend reported failure
ExecuteRetrying(tables, stmt, fault) ==
    LET first == Post(tables, stmt, fault)
        again == Post(first.tables, stmt, NoFault)
        x == [raised |-> FALSE, error |-> NULL, value |-> NULL]
    IN  IF fault = NoFault
        THEN Answer(x @@ [tables |-> first.tables, posts |-> <<stmt>>], first)
        ELSE Answer(x @@ [tables |-> again.tables, posts |-> <<stmt, stmt>>], again)

\* CloudflareD1Client.execute(sql, params)
execute(tables, stmt, fault) ==
    LET response == Post(tables, stmt, fault)
    IN  Answer([tables |-> response.tables, posts |-> <<stmt>>,
                raised |-> FALSE, error |-> NULL, value |-> NULL], response)

\* result = self.execute(...); return f(result): an exception raised by
\* execute passes through the method
Then(x, f(_)) == IF x.raised THEN x ELSE Return(x, f(x.value))

\* CloudflareD1Client.query
query(tables, stmt, fault) ==
    Then(execute(tables, stmt, fault), LAMBDA result : GetOr(result, "results", <<>>))

\* CloudflareD1Client.query_one
query_one(tables, stmt, fault) ==
    Then(query(tables, stmt, fault),
         LAMBDA results : IF results # <<>> THEN results[1] ELSE NoRow)

\* CloudflareD1Client.insert, down to its return value
insert_row(tables, stmt, fault) ==
    Then(execute(tables, stmt, fault),
         LAMBDA result : GetOr(GetOr(result, "meta", <<>>), "last_row_id", 0))

\* CloudflareD1Client.update, down to its return value
update_rows(tables, stmt, fault) ==
    Then(execute(tables, stmt, fault),
         LAMBDA result : GetOr(GetOr(result, "meta", <<>>), "changes", 0))

\* CloudflareD1Client.delete
delete(tables, stmt, fault) ==
    Then(execute(tables, stmt, fault),
         LAMBDA result : GetOr(GetOr(result, "meta", <<>>), "changes", 0))

\* CloudflareD1Client.count
count(tables, stmt, fault) ==
    Then(query_one(tables, stmt, fault),
         LAMBDA result : IF result # NoRow THEN result.count ELSE 0)

Of(kind) == {stmt \in Statements : stmt.kind = kind}

\* a script called one method of the client and the call ended as x
Called(op, stmt, fault, x) ==
    /\ stations' = x.tables.stations
    /\ platforms' = x.tables.platforms
    /\ instruments' = x.tables.instruments
    /\ instrument_rois' = x.tables.instrument_rois
    /\ last' = [Done(op, "", FALSE, x.raised, x.value, <<>>,
                     IF x.raised THEN <<x.error>> ELSE <<>>, <<>>, <<>>)
                EXCEPT !.cand = [stmt |-> stmt, fault |-> fault], !.calls = x.posts]
    /\ UNCHANGED <<now, file, edited, running>>

CallExecute ==
    \E stmt \in Statements, fault \in {NoFault} \cup Faults :
        /\ stmt.kind = "insert" => Len(Store[stmt.table]) < MaxStored
        /\ Called("execute", stmt, fault, execute(Store, stmt, fault))
CallQuery ==
    \E stmt \in Of("select"), fault \in {NoFault} \cup Faults :
        Called("query", stmt, fault, query(Store, stmt, fault))
CallQueryOne ==
    \E stmt \in Of("select"), fault \in {NoFault} \cup Faults :
        Called("query_one", stmt, fault, query_one(Store, stmt, fault))
CallInsert ==
    \E stmt \in Of("insert"), fault \in {NoFault} \cup Faults :
        /\ Len(Store[stmt.table]) < MaxStored
        /\ Called("insert", stmt, fault, insert_row(Store, stmt, fault))
CallUpdate ==
    \E stmt \in Of("update"), fault \in {NoFault} \cup Faults :
        Called("update", stmt, fault, update_rows(Store, stmt, fault))
CallDelete ==
    \E stmt \in Of("delete"), fault \in {NoFault} \cup Faults :
        Called("delete", stmt, fault, delete(Store, stmt, fault))
CallCount ==
    \E stmt \in Of("count"), fault \in {NoFault} \cup Faults :
        Called("count", stmt, fault, count(Store, stmt, fault))

NextGateway ==
    \/ CallExecute
    \/ CallQuery
    \/ CallQueryOne
    \/ CallInsert
    \/ CallUpdate
    \/ CallDelete
    \/ CallCount

SpecGateway == Init /\ [][NextGateway]_vars

(* ----------------------- the YAML document builders ------------------- *)

\* A number a row carries is written as its JSON numeral.  Python's
\* truthiness of a cell: None, the empty string and the number zero are false.
Truthy(v) == v \notin {NULL, "", "0", "0.0"}
NotNone(v) == v # NULL

\* float(v), int(v) and bool(v) on the numerals the inputs carry
ToFloat == ("0" :> "0.0") @@ ("1" :> "1.0") @@ ("35" :> "35.0") @@ ("1.5" :> "1.5")
           @@ ("2020" :> "2020.0")
ToInt == ("0" :> "0") @@ ("1" :> "1") @@ ("35" :> "35") @@ ("1.5" :> "1") @@ ("2020" :> "2020")
ToBool == ("0" :> "False") @@ ("1" :> "True") @@ ("35" :> "True") @@ ("1.5" :> "True")
          @@ ("2020" :> "True")
Convert(how, v) ==
    CASE how = "float" -> ToFloat[v]
      [] how = "int" -> ToInt[v]
      [] how = "bool" -> ToBool[v]
      [] how = "true" -> "True"
      [] OTHER -> v

\* if row.get(col) [is not None]: d[key] = conv(row[col]), for each entry
\* <<col, key, test, conv>> of a run of such statements
Copied(row, entries) ==
    LET taken == {i \in DOMAIN entries :
                     IF entries[i][3] = "notnone" THEN NotNone(Get(row, entries[i][1]))
                     ELSE Truthy(Get(row, entries[i][1]))}
    IN  [k \in {entries[i][2] : i \in taken} |->
            LET i == CHOOSE j \in taken : entries[j][2] = k
            IN  Convert(entries[i][4], row[entries[i][1]])]

\* the sub-object stored without the test that it has a key
NestedAlways(key, sub) == key :> sub

\* if sub: d[key] = sub
Nested(key, sub) == IF DOMAIN sub = {} THEN <<>> ELSE key :> sub

roi_entries ==
    <<<<"description", "description", "truthy", "same">>,
      <<"alpha", "alpha", "notnone", "float">>,
      <<"auto_generated", "auto_generated", "truthy", "true">>,
      <<"thickness", "thickness", "truthy", "int">>,
      <<"generated_date", "generated_date", "truthy", "same">>,
      <<"source_image", "source_image", "truthy", "same">>,
      <<"comment", "comment", "truthy", "same">>,
      <<"roi_processing_enabled", "processing_enabled", "notnone", "bool">>,
      <<"vegetation_mask_path", "vegetation_mask_path", "truthy", "same">>,
      <<"last_processed_timestamp", "last_processed", "truthy", "same">>,
      <<"processing_status", "processing_status", "truthy", "same">>>>

\* YAMLGenerator.build_roi_dict over rows whose colour, points and updated_at
\* columns are NULL
build_roi_dict(roi) == Copied(roi, roi_entries)

instrument_entries ==
    <<<<"legacy_acronym", "legacy_acronym", "truthy", "same">>,
      <<"instrument_deployment_date", "instrument_deployment_date", "truthy", "same">>,
      <<"instrument_height_m", "instrument_height_m", "notnone", "float">>,
      <<"viewing_direction", "instrument_viewing_direction", "truthy", "same">>,
      <<"azimuth_degrees", "instrument_azimuth_degrees", "notnone", "float">>,
      <<"instrument_degrees_from_nadir", "instrument_degrees_from_nadir", "notnone", "float">>,
      <<"description", "description", "truthy", "same">>,
      <<"installation_notes", "installation_notes", "truthy", "same">>,
      <<"maintenance_notes", "maintenance_notes", "truthy", "same">>>>

camera_entries ==
    <<<<"camera_aperture", "aperture", "truthy", "same">>,
      <<"camera_brand", "brand", "truthy", "same">>,
      <<"camera_exposure_time", "exposure_time", "truthy", "same">>,
      <<"camera_focal_length_mm", "focal_length_mm", "truthy", "float">>,
      <<"camera_iso", "iso", "truthy", "same">>,
      <<"camera_lens", "lens", "truthy", "same">>,
      <<"camera_mega_pixels", "mega_pixels", "truthy", "same">>,
      <<"camera_model", "model", "truthy", "same">>,
      <<"camera_resolution", "resolution", "truthy", "same">>,
      <<"camera_serial_number", "serial_number", "truthy", "same">>,
      <<"camera_white_balance", "white_balance", "truthy", "same">>>>

timeline_entries ==
    <<<<"first_measurement_year", "first_measurement_year", "truthy", "int">>,
      <<"last_measurement_year", "last_measurement_year", "truthy", "int">>,
      <<"measurement_status", "measurement_status", "truthy", "same">>>>

maintenance_entries ==
    <<<<"calibration_date", "calibration_date", "truthy", "same">>,
      <<"calibration_notes", "calibration_notes", "truthy", "same">>,
      <<"manufacturer_warranty_expires", "warranty_expires", "truthy", "same">>,
      <<"power_source", "power_source", "truthy", "same">>,
      <<"data_transmission", "data_transmission", "truthy", "same">>,
      <<"last_image_timestamp", "last_image_timestamp", "truthy", "same">>,
      <<"image_quality_score", "image_quality_score", "notnone", "float">>,
      <<"image_processing_enabled", "image_processing_enabled", "notnone", "bool">>,
      <<"image_archive_path", "image_archive_path", "truthy", "same">>>>

\* if latitude is not None and longitude is not None: d['geolocation'] = ...
Geolocation(row) ==
    IF NotNone(Get(row, "latitude")) /\ NotNone(Get(row, "longitude"))
    THEN "geolocation" :>
            [point |-> [epsg |-> GetOr(row, "epsg_code", "epsg:4326"),
                        latitude_dd |-> ToFloat[row.latitude],
                        longitude_dd |-> ToFloat[row.longitude]]]
    ELSE <<>>

\* the ROIs whose comment starts with DEPRECATED, and the others
Deprecated(roi) == Get(roi, "comment") = "DEPRECATED x"
RoiDicts(rois, legacy) ==
    LET kept == {i \in DOMAIN rois : Deprecated(rois[i]) = legacy}
    IN  [n \in {rois[i].roi_name : i \in kept} |->
            build_roi_dict(rois[CHOOSE i \in kept :
                                   /\ rois[i].roi_name = n
                                   /\ \A j \in kept : rois[j].roi_name = n => j <= i])]

\* YAMLGenerator.build_instrument_dict(instrument, platform_id); rois is what
\* fetch_rois returns for the instrument
build_instrument_dict(instrument, rois) ==
    [id |-> instrument.normalized_name,
     normalized_name |-> instrument.normalized_name,
     display_name |-> instrument.display_name,
     instrument_type |-> GetOr(instrument, "instrument_type", "phenocam"),
     ecosystem_code |-> GetOr(instrument, "ecosystem_code", ""),
     instrument_number |-> GetOr(instrument, "instrument_number", ""),
     status |-> GetOr(instrument, "status", "Active")]
    @@ Copied(instrument, instrument_entries)
    @@ Nested("camera_specifications", Copied(instrument, camera_entries))
    @@ Nested("measurement_timeline", Copied(instrument, timeline_entries))
    @@ Nested("maintenance", Copied(instrument, maintenance_entries))
    @@ Nested("rois", RoiDicts(rois, FALSE))
    @@ Nested("legacy_phenocam_rois", RoiDicts(rois, TRUE))
    @@ Geolocation(instrument)

\* None where a dict is expected
NoDict == [none |-> TRUE]

\* notes.replace('"', '\\"') on the notes the inputs carry
Escaped == ("a" :> "a") @@ ("say \"a\"" :> "say \\\"a\\\"")

\* the camera and sensor entries main keeps for a joined row
Block(row, lead, cols) ==
    IF Truthy(row[lead]) THEN [c \in DOMAIN cols |-> row[cols[c]]] ELSE NoDict

\* the lines main prints under a block that is kept: its truthy members
PrintedBlock(key, block) ==
    IF block = NoDict THEN <<>>
    ELSE key :> [k \in {c \in DOMAIN block : Truthy(block[c])} |-> block[k]]

\* the lines main prints for the instrument of a joined row
PrintedInstrument(row) ==
    [display_name |-> row.instr_display,
     instrument_type |-> row.instrument_type,
     status |-> row.status]
    @@ Copied(row, <<<<"instrument_number", "instrument_number", "truthy", "same">>,
                     <<"legacy_acronym", "legacy_acronym", "truthy", "same">>,
                     <<"instrument_height_m", "instrument_height_m", "truthy", "same">>,
                     <<"deployment_date", "deployment_date", "truthy", "same">>>>)
    @@ PrintedBlock("camera", Block(row, "camera_brand",
                        [brand |-> "camera_brand", model |-> "camera_model",
                         serial_number |-> "camera_serial_number"]))
    @@ PrintedBlock("sensor", Block(row, "sensor_brand",
                        [brand |-> "sensor_brand", model |-> "sensor_model"]))
    @@ (IF Truthy(row.installation_notes)
        THEN [installation_notes |-> Escaped[row.installation_notes]] ELSE <<>>)

\* the last row of results that names a key value: later rows overwrite the
\* entries of earlier ones
LastWith(results, col, val) ==
    results[CHOOSE i \in DOMAIN results :
               /\ results[i][col] = val
               /\ \A j \in DOMAIN results : results[j][col] = val => j <= i]

\* the lines main prints for a platform
PrintedPlatform(results, platform) ==
    LET mine == SelectSeq(results, LAMBDA r : r.platform = platform)
        p == mine[Len(mine)]
    IN  [display_name |-> p.platform_display,
         location_code |-> p.location_code,
         instruments |-> [i \in {mine[k].instrument : k \in DOMAIN mine} |->
                             PrintedInstrument(LastWith(mine, "instrument", i))]]
        @@ Copied(p, <<<<"mounting_structure", "mounting_structure", "truthy", "same">>,
                       <<"platform_height_m", "platform_height_m", "truthy", "same">>,
                       <<"plat_lat", "latitude", "truthy", "same">>,
                       <<"plat_lon", "longitude", "truthy", "same">>>>)

\* export_db_to_yaml.main: the YAML document printed for the joined rows
ExportYaml(results) ==
    [s \in {results[k].acronym : k \in DOMAIN results} |->
        LET mine == SelectSeq(results, LAMBDA r : r.acronym = s)
        IN  [display_name |-> mine[Len(mine)].station_display,
             platforms |-> [p \in {mine[k].platform : k \in DOMAIN mine} |->
                               PrintedPlatform(mine, p)]]]

\* instrument rows as SELECT * returns them: the columns of the nested
\* sub-objects NULL, empty, zero or set
InstrumentRecords ==
    {[id |-> 1, normalized_name |-> "PHE01", display_name |-> "a", status |-> "a",
      instrument_type |-> "a", ecosystem_code |-> "a", instrument_number |-> "a",
      camera_brand |-> cb, camera_focal_length_mm |-> cf,
      first_measurement_year |-> fy, calibration_date |-> cd,
      image_quality_score |-> qs, latitude |-> lat, longitude |-> lon, epsg_code |-> NULL] :
        cb \in {NULL, "", "a"}, cf \in {NULL, "35"}, fy \in {NULL, "0", "2020"},
        cd \in {NULL, "a"}, qs \in {NULL, "0", "1"}, lat \in {NULL, "0", "1.5"},
        lon \in {NULL, "1.5"}}

RoiRecords ==
    <<[roi_name |-> "ROI_00", description |-> NULL, comment |-> NULL, alpha |-> NULL],
      [roi_name |-> "ROI_01", description |-> "a", comment |-> "DEPRECATED x", alpha |-> "1"]>>

\* joined rows as the SELECT of the usage note returns them
JoinedRows ==
    {[acronym |-> "SVB", station_display |-> "a", platform |-> "PL01",
      platform_display |-> "a", location_code |-> "a", mounting_structure |-> NULL,
      platform_height_m |-> "1.5", plat_lat |-> NULL, plat_lon |-> "0",
      instrument |-> i, instr_display |-> "a", instrument_type |-> "a",
      instrument_number |-> "a", status |-> "a", legacy_acronym |-> NULL,
      instrument_height_m |-> "0", deployment_date |-> NULL,
      camera_brand |-> cb, camera_model |-> cm, camera_serial_number |-> NULL,
      sensor_brand |-> sb, sensor_model |-> sm, installation_notes |-> n] :
        i \in InstrumentNames, cb \in {NULL, "", "a"}, cm \in {NULL, "a"},
        sb \in {NULL, "a"}, sm \in {NULL, "a"}, n \in {NULL, "say \"a\""}}

\* the generator built the dict of one instrument
BuildInstrumentDict ==
    \E instrument \in InstrumentRecords, n \in 0..Len(RoiRecords) :
        /\ last.op = "none"
        /\ last' = [Done("build_instrument_dict", "", FALSE, FALSE,
                         build_instrument_dict(instrument, SubSeq(RoiRecords, 1, n)),
                         <<>>, <<>>, <<>>, <<>>)
                    EXCEPT !.cand = <<instrument>>]
        /\ UNCHANGED <<stations, platforms, instruments, instrument_rois, now, file, edited, running>>

\* the export script printed the document of one or two joined rows
ExportDbToYaml ==
    \E first \in JoinedRows, more \in {<<>>} \cup {<<r>> : r \in JoinedRows} :
        /\ last.op = "none"
        /\ first.instrument = "PHE01"
        /\ more # <<>> => more[1].camera_model = NULL /\ more[1].sensor_model = NULL
        /\ last' = [Done("export_db_to_yaml", "", FALSE, FALSE,
                         ExportYaml(<<first>> \o more), <<>>, <<>>, <<>>, <<>>)
                    EXCEPT !.cand = <<first>> \o more]
        /\ UNCHANGED <<stations, platforms, instruments, instrument_rois, now, file, edited, running>>

NextDoc ==
    \/ BuildInstrumentDict
    \/ ExportDbToYaml

SpecDoc == Init /\ [][NextDoc]_vars

(* --------------------------- the bulk loaders -------------------------- *)

\* rows of an instruments file: a well-formed row under PL01 with a blank
\* status cell, a row whose platform no station has, a row without
\* instrument_type
InstrumentInputs ==
    {[platform |-> "PL01", normalized_name |-> "PHE02", instrument_type |-> "a",
      status |-> "", serial_number |-> "a", description |-> ""],
     [platform_normalized_name |-> "", platform |-> "PL99", normalized_name |-> "PHE01",
      instrument_type |-> "a"],
     [platform |-> "PL01", normalized_name |-> "PHE01"]}

\* rows of a platforms file: a well-formed row, a row with a blank latitude
\* cell, a row without normalized_name
PlatformInputs ==
    {[normalized_name |-> "PL02", latitude |-> "1.50"],
     [normalized_name |-> "PL01", latitude |-> "", description |-> ""],
     [display_name |-> "a"]}

\* rows of a ROI file: a well-formed row, a row without roi_name
RoiInputs ==
    {[roi_name |-> "ROI_00", color |-> "b"], [description |-> "a"]}

Files(inputs) == UNION {[1..n -> inputs] : n \in 0..MaxRows}

InstrumentTargets == InstrumentNames \cup {"PHE99"}

LoadDone(op, key, rows, dry_run, r, firstI) ==
    [Done(op, key, dry_run, r.raised, IF r.raised THEN NULL ELSE r.imported,
          r.stmts, r.errors, <<>>, firstI) EXCEPT !.cand = rows]

LoadNotFound(op, key, dry_run, firstI) ==
    [Done(op, key, dry_run, TRUE, NULL, <<>>, <<>>, <<>>, firstI) EXCEPT !.cand = <<>>]

\* import_instruments(file_path, station_acronym, dry_run)
import_instruments(rows, acr, dry_run, fail, firstS) ==
    LET sid == QueryOneId(firstS, acr)
    IN  /\ now < MaxClock
        /\ IF sid = 0
           THEN /\ last' = LoadNotFound("import_instruments", acr, dry_run, <<>>)
                /\ UNCHANGED <<instruments, now>>
           ELSE \E r \in {InstrumentRows(LoadStart(instruments, now), rows, 1,
                                          PlatformMap(platforms, sid), dry_run, fail)} :
                /\ instruments' = r.tbl
                /\ now' = IF dry_run THEN now ELSE r.clock
                /\ last' = LoadDone("import_instruments", acr, rows, dry_run, r, <<>>)
        /\ UNCHANGED <<stations, platforms, instrument_rois, file, edited, running>>

\* import_platforms(file_path, station_acronym, dry_run)
import_platforms(rows, acr, dry_run, fail, firstS) ==
    LET sid == QueryOneId(firstS, acr)
    IN  /\ now < MaxClock
        /\ IF sid = 0
           THEN /\ last' = LoadNotFound("import_platforms", acr, dry_run, <<>>)
                /\ UNCHANGED <<platforms, now>>
           ELSE \E r \in {PlatformRows(LoadStart(platforms, now), rows, 1, sid, dry_run, fail)} :
                /\ platforms' = r.tbl
                /\ now' = IF dry_run THEN now ELSE r.clock
                /\ last' = LoadDone("import_platforms", acr, rows, dry_run, r, <<>>)
        /\ UNCHANGED <<stations, instruments, instrument_rois, file, edited, running>>

\* import_rois(file_path, instrument_name, dry_run)
import_rois(rows, name, dry_run, fail, firstI) ==
    LET iid == QueryOneId(firstI, name)
    IN  /\ now < MaxClock
        /\ IF iid = 0
           THEN /\ last' = LoadNotFound("import_rois", name, dry_run, firstI)
                /\ UNCHANGED <<instrument_rois, now>>
           ELSE \E r \in {RoiRows(LoadStart(instrument_rois, now), rows, 1, iid, dry_run, fail)} :
                /\ instrument_rois' = r.tbl
                /\ now' = IF dry_run THEN now ELSE r.clock
                /\ last' = LoadDone("import_rois", name, rows, dry_run, r, firstI)
        /\ UNCHANGED <<stations, platforms, instruments, file, edited, running>>

\* the input files a loader may be given; a loader whose lookup fails raises
\* before it opens the file
FilesFor(inputs, found) == IF found THEN Files(inputs) ELSE {<<>>}
\* the row whose INSERT the store rejects, 0 for none
Rejections(rows, dry_run) == IF dry_run THEN {0} ELSE 0..Len(rows)

LoadInstruments(files) ==
    \E acr \in Acronyms, dry_run \in BOOLEAN, firstS \in Pickers(stations, "acronym") :
       \E rows \in FilesFor(files, QueryOneId(firstS, acr) # 0) :
          \E fail \in Rejections(rows, dry_run) :
             import_instruments(rows, acr, dry_run, fail, firstS)

LoadPlatforms(files) ==
    \E acr \in Acronyms, dry_run \in BOOLEAN, firstS \in Pickers(stations, "acronym") :
       \E rows \in FilesFor(files, QueryOneId(firstS, acr) # 0) :
          \E fail \in Rejections(rows, dry_run) :
             import_platforms(rows, acr, dry_run, fail, firstS)

LoadRois(files) ==
    \E name \in InstrumentTargets, dry_run \in BOOLEAN,
       firstI \in Pickers(instruments, "normalized_name") :
       \E rows \in FilesFor(files, QueryOneId(firstI, name) # 0) :
          \E fail \in Rejections(rows, dry_run) :
             import_rois(rows, name, dry_run, fail, firstI)

NextLoad ==
    \/ LoadInstruments(InstrumentInputs)
    \/ LoadPlatforms(PlatformInputs)
    \/ LoadRois(RoiInputs)

SpecLoad == Init /\ [][NextLoad]_vars

(* ------------------ every command, its lookup key free ----------------- *)

\* one well-formed row per kind
CmdInstrumentInputs == {r \in InstrumentInputs : "status" \in DOMAIN r}
CmdPlatformInputs == {r \in PlatformInputs : DOMAIN r = {"normalized_name", "latitude"}}
CmdRoiInputs == {r \in RoiInputs : "roi_name" \in DOMAIN r}

NextCmd ==
    \/ LoadInstruments(CmdInstrumentInputs)
    \/ LoadPlatforms(CmdPlatformInputs)
    \/ LoadRois(CmdRoiInputs)
    \/ \E acr \in Acronyms, firstS \in Pickers(stations, "acronym") :
          pull_station(acr, firstS)
    \/ \E acr \in Acronyms, dry_run \in BOOLEAN,
          firstS \in Pickers(stations, "acronym"),
          firstP \in Pickers(platforms, "normalized_name"),
          firstI \in Pickers(instruments, "normalized_name") :
          push_station(acr, dry_run, firstS, firstP, firstI, 0)
    \/ \E acr \in Acronyms, firstS \in Pickers(stations, "acronym") :
          diff_station(acr, firstS)

SpecCmd == Init /\ [][NextCmd]_vars

(* ---------------- the assemblers over stores of any row order ---------- *)

\* Two platform rows, two instrument rows and two ROI rows whose insertion
\* (rowid) order, natural-key order and display_name order all vary; natural
\* keys are unique within the parent.  Row 1 belongs to parent 1.
AsmDisplayNames == {<<"a", "b">>, <<"b", "a">>}

AsmPlatformTables ==
    LET c == {x \in PlatformNames \X (1..2) \X PlatformNames \X AsmDisplayNames :
                 x[2] = 1 => x[1] # x[3]}
    IN  {<<PlatformRow(1, 1, x[1], x[4][1], NULL), PlatformRow(2, x[2], x[3], x[4][2], "")>> :
            x \in c}

AsmInstrumentTables ==
    LET c == {x \in InstrumentNames \X (1..2) \X InstrumentNames \X AsmDisplayNames :
                 x[2] = 1 => x[1] # x[3]}
    IN  {<<InstrumentRow(1, 1, x[1], x[4][1], NULL), InstrumentRow(2, x[2], x[3], x[4][2], "")>> :
            x \in c}

AsmRoiTables ==
    {<<RoiRow(1, 1, "ROI_01"), RoiRow(2, i, "ROI_00")>> : i \in 1..2}

InitAsm ==
    /\ stations = InitStations
    /\ platforms \in AsmPlatformTables
    /\ instruments \in AsmInstrumentTables
    /\ instrument_rois \in AsmRoiTables
    /\ now = 0
    /\ file = NoFile
    /\ edited = FALSE
    /\ last = NoOp
    /\ running = NotRunning

NextAsm ==
    \/ \E acr \in Acronyms, firstS \in Pickers(stations, "acronym") :
          pull_station(acr, firstS)
    \/ \E acr \in Acronyms, write \in BOOLEAN, firstS \in Pickers(stations, "acronym") :
          export_station_data(acr, write, firstS)
    \/ Tick

SpecAsm == InitAsm /\ [][NextAsm]_vars

(* ------------------------- checked properties ------------------------- *)

TableNames == {"stations", "platforms", "instruments", "instrument_rois"}

\* the last operation was a push that found its station
PushDone == last.op = "push" /\ ~last.raised
DiffDone == last.op = "diff" /\ ~last.raised
\* the station row the last operation looked up
TargetId == (CHOOSE r \in Range(last.pre.stations) : r.acronym = last.station).id
CandPlatforms == GetOr(last.cand, "platforms", <<>>)

\* C1: a push with dry_run set issues no statement and leaves every row of
\* every table, updated_at included, exactly as it was before the call.
C1_DryRunNoOp ==
    (last.op = "push" /\ last.dry_run) => (Store = last.pre /\ last.stmts = <<>>)

\* a dry run that found several divergent entities, one with several fields
C1_Witness ==
    /\ PushDone /\ last.dry_run
    /\ Len(last.out) >= 2
    /\ \E k \in DOMAIN last.out :
          /\ "updates" \in DOMAIN last.out[k]
          /\ Cardinality(DOMAIN last.out[k].updates) >= 3

\* C2: a push, dry or real, leaves the set of row identities of stations,
\* platforms, instruments and ROIs as it was: no row is created or deleted.
C2_NoCreateNoDelete ==
    last.op = "push" =>
        \A t \in TableNames :
            /\ Ids(Store[t]) = Ids(last.pre[t])
            /\ Len(Store[t]) = Len(last.pre[t])

\* a real push that executed an update, whose candidate names a platform
\* matching no row at all and omits a platform the target station has
C2_Witness ==
    /\ PushDone /\ ~last.dry_run
    /\ Len(last.stmts) >= 1
    /\ \E i \in DOMAIN CandPlatforms :
          \A p \in Range(last.pre.platforms) :
              p.normalized_name # CandPlatforms[i].normalized_name
    /\ \E p \in Range(last.pre.platforms) :
          /\ p.station_id = TargetId
          /\ \A i \in DOMAIN CandPlatforms :
                CandPlatforms[i].normalized_name # p.normalized_name

\* C3: every platform or instrument of the candidate that matches no row by
\* natural key is listed in the result push returns, outside its counters.
UnmatchedNames ==
    {CandPlatforms[i].normalized_name : i \in
        {i \in DOMAIN CandPlatforms :
            \A p \in Range(last.pre.platforms) :
                p.normalized_name # CandPlatforms[i].normalized_name}}
    \cup
    UNION {LET is == GetOr(CandPlatforms[i], "instruments", <<>>)
           IN  {is[j].normalized_name : j \in
                   {j \in DOMAIN is :
                       \A q \in Range(last.pre.instruments) :
                           q.normalized_name # is[j].normalized_name}} :
           i \in DOMAIN CandPlatforms}

C3_SkippedReported ==
    PushDone =>
        \A n \in UnmatchedNames :
            \E k \in DOMAIN last.ret \ {"updated", "inserted", "deleted"} :
                n \in Range(last.ret[k])

\* C4: after a real push of a candidate that differs from the store only in
\* allow-listed fields of matched entities, assembling the station again
\* gives every such field of the station, its platforms and their
\* instruments the candidate's value.
DelKeys(d, ks) == [x \in DOMAIN d \ ks |-> d[x]]

InstrumentSkeleton(e) == DelKeys(e, Range(instrument_fields))
PlatformSkeleton(e) ==
    LET is == GetOr(e, "instruments", <<>>)
    IN  SetKey(DelKeys(e, Range(platform_fields)), "instruments",
               [j \in DOMAIN is |-> InstrumentSkeleton(is[j])])
Skeleton(d) ==
    LET ps == GetOr(d, "platforms", <<>>)
    IN  SetKey(DelKeys(d, Range(station_fields) \cup {"_sync_meta"}), "platforms",
               [i \in DOMAIN ps |-> PlatformSkeleton(ps[i])])

HasAll(e, fields) == Range(fields) \subseteq DOMAIN e
SameOn(e, c, fields) == \A f \in Range(fields) : e[f] = c[f]

Reference ==
    StationDoc(TargetId, last.pre.stations, last.pre.platforms, last.pre.instruments,
               last.pre.instrument_rois, 0)
Assembled ==
    StationDoc(TargetId, stations, platforms, instruments, instrument_rois, 0)

OnlyAllowListedDiffer ==
    /\ Skeleton(last.cand) = Skeleton(Reference)
    /\ HasAll(last.cand, station_fields)
    /\ \A i \in DOMAIN CandPlatforms :
          /\ HasAll(CandPlatforms[i], platform_fields)
          /\ \A j \in DOMAIN CandPlatforms[i].instruments :
                HasAll(CandPlatforms[i].instruments[j], instrument_fields)

C4_Convergence ==
    (PushDone /\ ~last.dry_run /\ OnlyAllowListedDiffer) =>
        /\ SameOn(Assembled, last.cand, station_fields)
        /\ \A i \in DOMAIN CandPlatforms :
              /\ SameOn(Assembled.platforms[i], CandPlatforms[i], platform_fields)
              /\ \A j \in DOMAIN CandPlatforms[i].instruments :
                    SameOn(Assembled.platforms[i].instruments[j],
                           CandPlatforms[i].instruments[j], instrument_fields)

\* C5: in a real push every matched entity with a divergent allow-listed
\* field gets exactly one update statement, by id, that sets exactly its
\* divergent fields and a refreshed updated_at; a matched entity with no
\* divergent field gets no statement and keeps its updated_at.
OneUpdate(tbl, id, local, fields) ==
    LET before == RowById(last.pre[tbl], id)
        after == RowById(Store[tbl], id)
        ups == FieldUpdates(fields, local, before)
        hits == {k \in DOMAIN last.stmts :
                    last.stmts[k].table = tbl /\ last.stmts[k].id = id}
    IN  IF DOMAIN ups # {}
        THEN /\ Cardinality(hits) = 1
             /\ \A k \in hits :
                   /\ DOMAIN last.stmts[k].set = DOMAIN ups \cup {"updated_at"}
                   /\ \A f \in DOMAIN ups : last.stmts[k].set[f] = ups[f]
                   /\ last.stmts[k].set.updated_at > before.updated_at
        ELSE /\ hits = {}
             /\ after.updated_at = before.updated_at

C5_OneUpdatePerEntity ==
    (PushDone /\ ~last.dry_run) =>
        /\ OneUpdate("stations", TargetId, last.cand, station_fields)
        /\ \A i \in DOMAIN CandPlatforms :
              \A p \in Range(last.pre.platforms) :
                 (p.station_id = TargetId
                    /\ p.normalized_name = CandPlatforms[i].normalized_name) =>
                    /\ OneUpdate("platforms", p.id, CandPlatforms[i], platform_fields)
                    /\ LET is == GetOr(CandPlatforms[i], "instruments", <<>>)
                       IN  \A j \in DOMAIN is :
                              \A q \in Range(last.pre.instruments) :
                                 (q.platform_id = p.id
                                    /\ q.normalized_name = is[j].normalized_name) =>
                                    OneUpdate("instruments", q.id, is[j], instrument_fields)

\* C6: the mutations (entity, field, new value) a dry run reports are the
\* mutations the real push of the same candidate that follows it applies.
KeyOf(tbl) == IF tbl = "stations" THEN "acronym" ELSE "normalized_name"

Applied(stmts, store) ==
    UNION {{<<stmts[k].table, RowById(store[stmts[k].table], stmts[k].id)[KeyOf(stmts[k].table)],
              f, stmts[k].set[f]>> : f \in DOMAIN stmts[k].set \ {"updated_at"}} :
           k \in DOMAIN stmts}

Reported(out, acr) ==
    UNION {IF "updates" \in DOMAIN out[k]
           THEN {<<TableOf(out[k].level), GetOr(out[k], "name", acr), f, out[k].updates[f]>> :
                    f \in DOMAIN out[k].updates \ {"updated_at"}}
           ELSE {} :
           k \in DOMAIN out}

C6_DryRunPredicts ==
    [][(/\ PushDone /\ last.dry_run
        /\ last'.op = "push" /\ ~last'.raised /\ ~last'.dry_run
        /\ last'.cand = last.cand /\ last'.station = last.station
        /\ last'.firstP = last.firstP /\ last'.firstI = last.firstI)
       => Applied(last'.stmts, last'.pre) = Reported(last.out, last.station)]_vars

\* C7: a candidate value that is null, missing or empty is equal to a stored
\* value that is null or empty: diff reports no such pair and push writes
\* no such field.
Unset(v) == v \in {NULL, ""}

C7_AbsenceNormalized ==
    /\ DiffDone =>
          \A e \in Range(last.ret.station) \cup Range(last.ret.platforms) :
              ~(Unset(e.local) /\ Unset(e.database))
    /\ (PushDone /\ ~last.dry_run) =>
          \A k \in DOMAIN last.stmts :
              \A f \in DOMAIN last.stmts[k].set \ {"updated_at"} :
                  ~(/\ Unset(last.stmts[k].set[f])
                    /\ Unset(RowById(last.pre[last.stmts[k].table], last.stmts[k].id)[f]))

\* C8: every platform and instrument that the candidate has and the station
\* in the store lacks, or the other way round, appears in the result of diff
\* as an entry that is not a field-level entry.
StorePlatformNames ==
    {p.normalized_name : p \in {p \in Range(last.pre.platforms) : p.station_id = TargetId}}
StoreInstrumentNames(n) ==
    {q.normalized_name : q \in
        {q \in Range(last.pre.instruments) :
            \E p \in Range(last.pre.platforms) :
                p.station_id = TargetId /\ p.normalized_name = n /\ q.platform_id = p.id}}
CandInstrumentNames(n) ==
    UNION {SiblingNames(GetOr(CandPlatforms[i], "instruments", <<>>)) :
              i \in {i \in DOMAIN CandPlatforms : CandPlatforms[i].normalized_name = n}}
SymDiff(A, B) == (A \ B) \cup (B \ A)

StructuralMismatches ==
    SymDiff(SiblingNames(CandPlatforms), StorePlatformNames)
    \cup UNION {SymDiff(CandInstrumentNames(n), StoreInstrumentNames(n)) :
                   n \in SiblingNames(CandPlatforms) \cap StorePlatformNames}

C8_StructuralSurfaced ==
    DiffDone =>
        \A n \in StructuralMismatches :
            \E k \in DOMAIN last.ret :
                \E e \in Range(last.ret[k]) :
                    /\ "field" \notin DOMAIN e
                    /\ \E x \in DOMAIN e : e[x] = n

\* C9: the (entity, field) pairs a real push updates are the pairs diff
\* reports as divergent for the same candidate and store.
PushPairs ==
    {<<m[1], m[2], m[3]>> : m \in Applied(last.stmts, last.pre)}

DiffPairs ==
    LET d == Differences(last.cand, TargetId, last.pre.stations, last.pre.platforms)
    IN  {<<"stations", last.station, e.field>> : e \in Range(d.station)}
        \cup {<<"platforms", e.platform, e.field>> : e \in Range(d.platforms)}
        \cup {<<"instruments", e.instrument, e.field>> : e \in Range(d.instruments)}

C9_PushAppliesDiff ==
    (PushDone /\ ~last.dry_run) => PushPairs = DiffPairs

\* C10: diff reports one entry for every divergent allow-listed field of the
\* station, of each matched platform (tagged with its name) and of each
\* matched instrument (tagged with its name, under the instrument level).
Divergent(local, row, f) == f \in DOMAIN local /\ local[f] # row[f]

C10_DiffEveryLevel ==
    DiffDone =>
        /\ \A f \in Range(diff_station_fields) :
              Divergent(last.cand, RowById(last.pre.stations, TargetId), f) =>
                 \E e \in Range(last.ret.station) : e.field = f
        /\ \A i \in DOMAIN CandPlatforms :
              \A p \in Range(last.pre.platforms) :
                 (p.station_id = TargetId
                    /\ p.normalized_name = CandPlatforms[i].normalized_name) =>
                    /\ \A f \in Range(diff_platform_fields) :
                          Divergent(CandPlatforms[i], p, f) =>
                             \E e \in Range(last.ret.platforms) :
                                e.field = f /\ e.platform = p.normalized_name
                    /\ LET is == GetOr(CandPlatforms[i], "instruments", <<>>)
                       IN  \A j \in DOMAIN is :
                              \A q \in Range(last.pre.instruments) :
                                 (q.platform_id = p.id
                                    /\ q.normalized_name = is[j].normalized_name) =>
                                    \A f \in Range(instrument_fields) :
                                       Divergent(is[j], q, f) =>
                                          \E e \in Range(last.ret.instruments) :
                                             /\ e.field = f
                                             /\ e.instrument = q.normalized_name

AllowList(tbl) ==
    IF tbl = "stations" THEN Range(station_fields)
    ELSE IF tbl = "platforms" THEN Range(platform_fields)
    ELSE IF tbl = "instruments" THEN Range(instrument_fields)
    ELSE {}

\* C11: every statement a push issues is an update whose SET list holds only
\* allow-listed fields of its level plus updated_at, and the rows of the
\* store differ from their pre-state in those columns only; id, acronym,
\* normalized_name, station_id and platform_id are never written, whatever
\* keys the candidate carries.
C11_OnlyAllowListed ==
    last.op = "push" =>
        /\ \A k \in DOMAIN last.stmts :
              /\ last.stmts[k].kind = "update"
              /\ DOMAIN last.stmts[k].set \subseteq AllowList(last.stmts[k].table) \cup {"updated_at"}
        /\ \A t \in TableNames : \A r \in Range(Store[t]) :
              \E o \in Range(last.pre[t]) :
                  /\ o.id = r.id
                  /\ DOMAIN o = DOMAIN r
                  /\ \A c \in DOMAIN r : r[c] # o[c] => c \in AllowList(t) \cup {"updated_at"}

\* a real push that updated the station row from a candidate whose id,
\* acronym and status all differ from that row
C11_Witness ==
    /\ PushDone /\ ~last.dry_run
    /\ \E k \in DOMAIN last.stmts :
          last.stmts[k].table = "stations" /\ last.stmts[k].id = TargetId
    /\ LET o == RowById(last.pre.stations, TargetId)
       IN  /\ {"id", "acronym", "status"} \subseteq DOMAIN last.cand
           /\ last.cand.id # o.id
           /\ last.cand.acronym # o.acronym
           /\ last.cand.status # o.status

\* the last operation assembled a document
AssembleDone == last.op \in {"pull", "export"} /\ ~last.raised

\* the document without the time it was assembled at
Untimed(doc) ==
    IF "_sync_meta" \in DOMAIN doc
    THEN [doc EXCEPT !["_sync_meta"] = [@ EXCEPT !.pulled_at = 0]]
    ELSE [doc EXCEPT !["_export_meta"] = [@ EXCEPT !.exported_at = 0]]

\* an assemble call that directly follows an assemble call of the same kind
\* for the same station, the store unchanged since before the first
SuccessiveAssembles ==
    /\ AssembleDone
    /\ last'.op = last.op /\ last'.station = last.station /\ ~last'.raised
    /\ last.pre = Store /\ last'.pre = Store /\ Store' = Store

\* C12: two successive assemble calls for one station with no store write
\* between them return identical documents: same entities, same order, same
\* keys and values.
C12_RoundTripIdentical ==
    [][SuccessiveAssembles => last'.ret = last.ret]_vars

\* what two successive assemble calls do agree on: everything but the time
\* recorded in _sync_meta.pulled_at or _export_meta.exported_at
RoundTripModuloTime ==
    [][SuccessiveAssembles => Untimed(last'.ret) = Untimed(last.ret)]_vars

Ascending(docs, key) ==
    \A i, j \in DOMAIN docs : i < j => Rank(docs[i][key]) <= Rank(docs[j][key])

NaturalKeyOrdered(doc) ==
    /\ Ascending(doc.platforms, "normalized_name")
    /\ \A i \in DOMAIN doc.platforms :
          LET p == doc.platforms[i]
          IN  /\ Ascending(p.instruments, "normalized_name")
              /\ \A j \in DOMAIN p.instruments : Ascending(p.instruments[j].rois, "roi_name")

\* C13: in every assembled document the platforms of the station, the
\* instruments of each platform and the ROIs of each instrument appear in
\* ascending order of their natural key, whatever the insertion order.
C13_NaturalKeyOrder ==
    AssembleDone => NaturalKeyOrdered(last.ret)

\* the half that holds: the documents of pull_station are in natural-key order
PullNaturalKeyOrder ==
    (last.op = "pull" /\ ~last.raised) => NaturalKeyOrdered(last.ret)

\* docs are the rows of tbl whose column col is pid: each once, none else,
\* column for column
ExactlyChildren(docs, tbl, col, pid) ==
    LET rows == {r \in Range(tbl) : r[col] = pid}
    IN  /\ Len(docs) = Cardinality(rows)
        /\ \A r \in rows : \E i \in DOMAIN docs : docs[i].id = r.id
        /\ \A i \in DOMAIN docs : \E r \in rows :
              \A c \in DOMAIN r : c \in DOMAIN docs[i] /\ docs[i][c] = r[c]

\* C14: the assembled document of station S holds exactly the platforms whose
\* station_id is S's id, under each platform exactly the instruments whose
\* platform_id is its id, under each instrument exactly the ROIs whose
\* instrument_id is its id: none missing, duplicated or under another parent.
C14_ExactScope ==
    AssembleDone =>
        /\ last.ret.id = TargetId
        /\ ExactlyChildren(last.ret.platforms, platforms, "station_id", TargetId)
        /\ \A i \in DOMAIN last.ret.platforms :
              LET p == last.ret.platforms[i]
              IN  /\ ExactlyChildren(p.instruments, instruments, "platform_id", p.id)
                  /\ \A j \in DOMAIN p.instruments :
                        ExactlyChildren(p.instruments[j].rois, instrument_rois,
                                        "instrument_id", p.instruments[j].id)

\* an assembled station with a platform, an instrument and a ROI of its own,
\* while another station has a platform with an instrument and a ROI
C14_Witness ==
    /\ AssembleDone
    /\ \E i \in DOMAIN last.ret.platforms :
          \E j \in DOMAIN last.ret.platforms[i].instruments :
              Len(last.ret.platforms[i].instruments[j].rois) >= 1
    /\ \E p \in Range(platforms), n \in Range(instruments), r \in Range(instrument_rois) :
          /\ p.station_id # TargetId
          /\ n.platform_id = p.id
          /\ r.instrument_id = n.id

LoadOps == {"import_instruments", "import_platforms", "import_rois"}

\* the row the last operation's top-level lookup is for exists
TargetFound ==
    IF last.op = "import_rois"
    THEN \E r \in Range(last.pre.instruments) : r.normalized_name = last.station
    ELSE \E r \in Range(last.pre.stations) : r.acronym = last.station

\* C15: a pull, push, diff or bulk load whose top-level lookup (station
\* acronym, or instrument normalized_name for a ROI load) finds no row ends
\* with the not-found error: no statement is issued, nothing is returned, the
\* store and the local file stay as they were.
C15_NotFoundFatal ==
    (last.op # "none" /\ ~TargetFound) =>
        /\ last.raised
        /\ last.ret = NULL
        /\ last.stmts = <<>>
        /\ Store = last.pre
        /\ last.op = "pull" => file = last.cand

\* a real push of a pulled document with platforms to a station the store
\* does not have
C15_Witness ==
    /\ last.op = "push" /\ ~last.dry_run
    /\ ~TargetFound
    /\ Len(CandPlatforms) >= 1
    /\ last.raised

\* the platform a row of an instruments file names
RowPlatform(row) == Or(Get(row, "platform_normalized_name"), Get(row, "platform"))

\* the platform the row names is not a platform of the target station
Unresolved(row) ==
    ~\E p \in Range(last.pre.platforms) :
        p.station_id = TargetId /\ p.normalized_name = RowPlatform(row)

WellFormedInstrument(row) ==
    /\ ~Unresolved(row)
    /\ {"normalized_name", "instrument_type"} \subseteq DOMAIN row

\* a real import_instruments run that found its station, in which no insert
\* was rejected, and whose file has exactly row k unresolved and the rest
\* well-formed
OneUnresolvedRow(k) ==
    /\ last.op = "import_instruments" /\ ~last.raised /\ ~last.dry_run
    /\ k \in DOMAIN last.cand
    /\ Unresolved(last.cand[k])
    /\ \A j \in DOMAIN last.cand \ {k} : WellFormedInstrument(last.cand[j])
    /\ \A e \in Range(last.out) : e.error # "D1 query failed"

\* C16: when exactly row k of an N-row instruments file names a platform that
\* is not in the target station and every other row is valid and accepted by
\* the store, exactly N - 1 instruments are inserted and the error list holds
\* row k under its 1-based index.
C16_BatchIsolation ==
    \A k \in 1..(MaxRows + 1) :
        OneUnresolvedRow(k) =>
            /\ Len(last.stmts) = Len(last.cand) - 1
            /\ Len(instruments) = Len(last.pre.instruments) + Len(last.cand) - 1
            /\ Len(last.ret) = Len(last.cand) - 1
            /\ Len(last.out) = 1
            /\ last.out[1].row = k

\* a file of several rows whose first row is the unresolved one
C16_Witness ==
    /\ OneUnresolvedRow(1)
    /\ Len(last.cand) >= 2
    /\ Len(last.stmts) >= 1

\* C17: for every kind of entity, a malformed row or an insert the store
\* rejects is recorded as a per-row error and does not abort the batch: a
\* load that found its target returns.
C17_NoBatchAbort ==
    (last.op \in LoadOps /\ TargetFound) => ~last.raised

\* the half that holds: import_instruments returns whatever its rows are
InstrumentsNoBatchAbort ==
    (last.op = "import_instruments" /\ TargetFound) =>
        /\ ~last.raised
        /\ Len(last.ret) + Len(last.out) = Len(last.cand)

\* C18: a dry-run bulk load of any kind issues no insert and leaves the store
\* as it was, and still resolves parents: every row whose platform is not in
\* the target station is in the error list under its index and not in the
\* returned list, as in a real load.
C18_DryRunLoad ==
    (last.op \in LoadOps /\ last.dry_run) =>
        /\ last.stmts = <<>>
        /\ Store = last.pre
        /\ (last.op = "import_instruments" /\ TargetFound) =>
              /\ \A k \in DOMAIN last.cand :
                    Unresolved(last.cand[k]) <=>
                        \E e \in Range(last.out) :
                            e.row = k /\ e.error = "platform not found"
              /\ Len(last.ret) + Len(last.out) = Len(last.cand)
              /\ \A i \in DOMAIN last.ret :
                    \E p \in Range(last.pre.platforms) :
                        p.id = last.ret[i].platform_id /\ p.station_id = TargetId

\* a dry-run instruments load of a well-formed row and an unresolved row
C18_Witness ==
    /\ last.op = "import_instruments" /\ last.dry_run /\ ~last.raised
    /\ Len(last.cand) >= 2
    /\ Len(last.ret) >= 1
    /\ \E k \in DOMAIN last.cand : Unresolved(last.cand[k])

\* every foreign key of the store names a row of the parent table
ForeignKeysHold ==
    /\ \A p \in Range(platforms) : p.station_id \in Ids(stations)
    /\ \A i \in Range(instruments) : i.platform_id \in Ids(platforms)
    /\ \A r \in Range(instrument_rois) : r.instrument_id \in Ids(instruments)

\* C19: after any bulk load every foreign key names an existing parent, and
\* every row the load inserted hangs under its target: a platform under the
\* target station, an instrument under a platform of the target station, a
\* ROI under an instrument with the target name; a row whose platform is
\* unresolved is not inserted.
C19_ReferentialIntegrity ==
    /\ ForeignKeysHold
    /\ last.op \in LoadOps =>
          \A k \in DOMAIN last.stmts :
              LET data == last.stmts[k].data
              IN  /\ last.op = "import_platforms" => data.station_id = TargetId
                  /\ last.op = "import_instruments" =>
                        /\ \E p \in Range(last.pre.platforms) :
                              /\ p.id = data.platform_id
                              /\ p.station_id = TargetId
                        /\ \E j \in DOMAIN last.cand :
                              /\ ~Unresolved(last.cand[j])
                              /\ last.cand[j].normalized_name = data.normalized_name
                  /\ last.op = "import_rois" =>
                        \E n \in Range(last.pre.instruments) :
                            n.id = data.instrument_id /\ n.normalized_name = last.station

\* a real instruments load that inserted a row under a platform whose name a
\* platform of another station has too
C19_Witness ==
    /\ last.op = "import_instruments" /\ ~last.dry_run /\ ~last.raised
    /\ Len(last.stmts) >= 1
    /\ \E p, q \in Range(last.pre.platforms) :
          /\ p.id = last.stmts[1].data.platform_id
          /\ q.normalized_name = p.normalized_name
          /\ q.station_id # p.station_id
          /\ q.id > p.id

UniqueWithin(tbl, parent, key) ==
    \A i, j \in DOMAIN tbl :
        (tbl[i][parent] = tbl[j][parent] /\ tbl[i][key] = tbl[j][key]) => i = j

\* C20: natural keys stay unique within their parent scope: no two platforms
\* of a station share a normalized_name, no two instruments of a platform
\* share a normalized_name, no two ROIs of an instrument share a roi_name.
C20_KeysUnique ==
    /\ UniqueWithin(platforms, "station_id", "normalized_name")
    /\ UniqueWithin(instruments, "platform_id", "normalized_name")
    /\ UniqueWithin(instrument_rois, "instrument_id", "roi_name")

\* the status a loader is to store for a row: "Active" when the row gives
\* none (key missing, or cell empty), the row's own otherwise
StatusFor(row) == IF Falsy(Get(row, "status")) THEN "Active" ELSE row.status

\* C21: every instrument or platform a bulk load inserts from a row without a
\* status, the key missing or the cell empty, is stored with status "Active";
\* a row that gives a status is stored with that status.
C21_StatusDefault ==
    last.op \in {"import_instruments", "import_platforms"} =>
        \A k \in DOMAIN last.stmts :
            \E j \in DOMAIN last.cand :
                /\ "normalized_name" \in DOMAIN last.cand[j]
                /\ last.cand[j].normalized_name = last.stmts[k].data.normalized_name
                /\ last.stmts[k].data.status = StatusFor(last.cand[j])
                /\ RowById(Store[last.stmts[k].table], last.stmts[k].id).status
                      = StatusFor(last.cand[j])

\* the half that holds: a row without a status key is stored as "Active"
MissingStatusDefault ==
    last.op \in {"import_instruments", "import_platforms"} =>
        \A k \in DOMAIN last.stmts :
            \E j \in DOMAIN last.cand :
                /\ "normalized_name" \in DOMAIN last.cand[j]
                /\ last.cand[j].normalized_name = last.stmts[k].data.normalized_name
                /\ last.stmts[k].data.status = RowGet(last.cand[j], "status", "Active")

\* C23: the update count a push returns is the number of update statements
\* it executed, which is 0 for every dry run; the inserted and deleted counts
\* are 0 after every push.
C23_CountsMatchStatements ==
    (last.op = "push" /\ ~last.raised) =>
        /\ last.ret.updated = Len(last.stmts)
        /\ last.dry_run => last.ret.updated = 0
        /\ last.ret.inserted = 0
        /\ last.ret.deleted = 0

\* a real push that executed two updates and returned the count 2
C23_Witness ==
    /\ last.op = "push" /\ ~last.raised /\ ~last.dry_run
    /\ Len(last.stmts) = 2
    /\ last.ret.updated = 2

\* the tables after the statements stmts[i..] were applied in order
RECURSIVE Replay(_, _, _)
Replay(tables, stmts, i) ==
    IF i > Len(stmts) THEN tables
    ELSE Replay([tables EXCEPT ![stmts[i].table] = update(@, stmts[i].set, stmts[i].id)],
                stmts, i + 1)

\* the last operation was a push that the store's rejection of an update ended
PushRejected == last.op = "push" /\ last.raised /\ last.calls # <<>>

UpdatesSent == SelectSeq(last.calls, LAMBDA c : c.kind = "update")

\* C25: when the store rejects the k-th update of a real push, the push
\* raises and returns no summary, the rejected update is the last gateway
\* call it makes (no further lookup or update, the update not sent a second
\* time), and the changes of the updates 1..k-1 remain in the store.
C25_PartialApply ==
    PushRejected =>
        /\ ~last.dry_run
        /\ last.ret = NULL
        /\ last.calls[Len(last.calls)].kind = "update"
        /\ Len(UpdatesSent) = Len(last.stmts) + 1
        /\ \A i \in DOMAIN last.stmts : UpdatesSent[i] = last.stmts[i]
        /\ Store = Replay(last.pre, last.stmts, 1)

\* the second update of a push was rejected after the first had changed a row
C25_Witness ==
    /\ PushRejected
    /\ Len(last.stmts) = 1
    /\ Store # last.pre
    /\ Store = Replay(last.pre, last.stmts, 1)

GatewayOps == {"execute", "query", "query_one", "insert", "update", "delete", "count"}

\* the last operation was a client call the backend answered with a failure
CallFailed == last.op \in GatewayOps /\ last.cand.fault \in Faults

\* the backend's error payload as the raised exception carries it: in the
\* message of the client's own Exception, in the response attached to the
\* HTTPError of raise_for_status
Payload(e) == IF e.type = "HTTPError" THEN e.response.json.errors ELSE e.errors

\* C22: when the backend reports failure for a statement, the client sends
\* that statement exactly once and raises an error carrying the backend's
\* error payload; query, query_one, insert, update, delete and count pass the
\* error on to their caller instead of returning a value.
C22_FailureSurfaces ==
    CallFailed =>
        /\ last.calls = <<last.cand.stmt>>
        /\ last.raised
        /\ last.ret = NULL
        /\ Len(last.out) = 1
        /\ Payload(last.out[1]) = last.cand.fault.errors
        /\ Store = last.pre

\* an update through the client's update method failed under HTTP status 200
C22_Witness ==
    /\ CallFailed
    /\ last.op = "update"
    /\ last.cand.fault.status = 200
    /\ last.raised
    /\ last.calls = <<last.cand.stmt>>

\* the source columns of each nested sub-object of an instrument dict
SubObjectColumns ==
    [camera_specifications |-> {camera_entries[i][1] : i \in DOMAIN camera_entries},
     measurement_timeline |-> {timeline_entries[i][1] : i \in DOMAIN timeline_entries},
     maintenance |-> {maintenance_entries[i][1] : i \in DOMAIN maintenance_entries},
     geolocation |-> {"latitude", "longitude", "epsg_code"}]

\* the camera and sensor columns of a joined row
BlockColumns ==
    [camera |-> {"camera_brand", "camera_model", "camera_serial_number"},
     sensor |-> {"sensor_brand", "sensor_model"}]

\* a nested sub-object is there only with a non-null source column, and
\* never empty
WellNested(doc, row, columns) ==
    \A k \in DOMAIN columns :
        k \in DOMAIN doc =>
            /\ \E c \in columns[k] : Get(row, c) # NULL
            /\ DOMAIN doc[k] # {}

\* the instrument blocks of a printed document, each with the joined row it
\* was printed from
PrintedInstruments ==
    {<<last.ret[s].platforms[p].instruments[i],
       LastWith(last.cand, "instrument", i)>> :
        s \in {"SVB"} \cap DOMAIN last.ret, p \in {"PL01"}, i \in {r.instrument : r \in Range(last.cand)}}

\* C24: in a document built from store rows an optional nested sub-object
\* (camera_specifications, the camera and sensor blocks, measurement_timeline,
\* maintenance, geolocation) is present only if one of its source columns is
\* non-null and is never empty, so an entity with none of them set has no
\* such key.
C24_NoEmptySubObject ==
    /\ last.op = "build_instrument_dict" =>
          WellNested(last.ret, last.cand[1], SubObjectColumns)
    /\ last.op = "export_db_to_yaml" =>
          \A b \in PrintedInstruments : WellNested(b[1], b[2], BlockColumns)

\* an instrument with every camera column empty or NULL and a quality score
\* of zero: no camera_specifications, a maintenance block
C24_Witness ==
    /\ last.op = "build_instrument_dict"
    /\ last.cand[1].camera_brand = ""
    /\ last.cand[1].camera_focal_length_mm = NULL
    /\ last.cand[1].image_quality_score = "0"
    /\ "camera_specifications" \notin DOMAIN last.ret
    /\ "maintenance" \in DOMAIN last.ret

\* a row without its modification timestamp
Timeless(row) == [k \in DOMAIN row \ {"updated_at"} |-> row[k]]

\* the tables after cand1 and then cand2 were pushed to station sid, one
\* push entirely before the other, from the tables pre
SerialOutcomes(cand1, cand2, sid, pre) ==
    {[stations |-> r2.stations, platforms |-> r2.platforms, instruments |-> r2.instruments] :
        r2 \in UNION {
            {PushRun(cand2, sid, FALSE, fp, fi, r1.stations, r1.platforms, r1.instruments,
                     r1.clock, 0) :
                fp \in Pickers(pre.platforms, "normalized_name"),
                fi \in Pickers(pre.instruments, "normalized_name")} :
            r1 \in {PushRun(cand1, sid, FALSE, fp, fi, pre.stations, pre.platforms,
                            pre.instruments, 1, 0) :
                       fp \in Pickers(pre.platforms, "normalized_name"),
                       fi \in Pickers(pre.instruments, "normalized_name")}}}

\* two real pushes of different candidates to one station have both returned
BothPushed ==
    /\ \A p \in Procs : running[p].pc = "done" /\ ~running[p].dry_run
    /\ running["A"].station = running["B"].station
    /\ running["A"].cand # running["B"].cand
    /\ running["A"].pre = running["B"].pre

\* a row holds field values that neither serial order leaves in it
NotSerializable ==
    LET a == running["A"]
        b == running["B"]
        sid == (CHOOSE r \in Range(a.pre.stations) : r.acronym = a.station).id
        serial == SerialOutcomes(a.cand, b.cand, sid, a.pre)
                  \cup SerialOutcomes(b.cand, a.cand, sid, a.pre)
    IN  \E t \in {"stations", "platforms", "instruments"} :
           \E i \in DOMAIN Store[t] :
              \A o \in serial : Timeless(Store[t][i]) # Timeless(o[t][i])

\* the step in which process p sends its pending update
Sends(p) == running[p].pc = "update" /\ running'[p].pc # "update"

\* C26: two pushes to one station whose gateway calls interleave can leave a
\* row that neither serial order produces, because an update is keyed by id
\* alone: whatever the row holds by then and whoever wrote it since the
\* sender read it, the update a push sends sets every field it carries and
\* leaves the row's other fields as they are.
C26_UpdatesUnconditional ==
    [][\A p \in Procs :
          Sends(p) =>
             LET stmt == running[p].pend
                 before == RowById(Store[stmt.table], stmt.id)
                 after == RowById(Store[stmt.table], stmt.id)'
             IN  \A k \in DOMAIN after :
                    after[k] = IF k \in DOMAIN stmt.set THEN stmt.set[k] ELSE before[k]]_vars

\* both pushes returned and a row holds a combination of values that neither
\* A before B nor B before A produces
C26_Witness == BothPushed /\ NotSerializable

\* the station a row belongs to, in the store the push found
OwnerOf(t, row) ==
    IF t = "stations" THEN row.id
    ELSE IF t = "platforms" THEN row.station_id
    ELSE RowById(last.pre.platforms, row.platform_id).station_id

\* C27: a push for station S changes only the station row of S, the
\* platform rows of S and the instrument rows under platforms of S; the rows
\* of every other station are as they were, also when the candidate names a
\* platform or instrument that exists under another station.
C27_ConfinedToStation ==
    (PushDone /\ ~last.dry_run) =>
        \A t \in {"stations", "platforms", "instruments"} :
            \A i \in DOMAIN last.pre[t] :
                OwnerOf(t, last.pre[t][i]) # TargetId => Store[t][i] = last.pre[t][i]

\* the station row itself is looked up by the acronym given: no other
\* station row is written
StationRowConfined ==
    (PushDone /\ ~last.dry_run) =>
        \A i \in DOMAIN last.pre.stations :
            last.pre.stations[i].id # TargetId => stations[i] = last.pre.stations[i]

\* the candidate of the last push is the document pull_station writes for the
\* pushed station from the store the push found
PushedWhatWasPulled ==
    /\ PushDone
    /\ "_sync_meta" \in DOMAIN last.cand
    /\ Untimed(last.cand) = Reference

\* C29: pushing the document pull_station produced for a station, unedited
\* and with no store write in between, executes no update statement and
\* leaves every row, updated_at included, unchanged.
C29_PullThenPushNoOp ==
    PushedWhatWasPulled =>
        /\ last.stmts = <<>>
        /\ last.out = <<>>
        /\ Store = last.pre

\* no two rows of the platforms table, and no two of the instruments table,
\* carry the same normalized_name
NamesGloballyUnique ==
    \A t \in {"platforms", "instruments"} :
        \A i, j \in DOMAIN last.pre[t] :
            last.pre[t][i].normalized_name = last.pre[t][j].normalized_name => i = j

\* with globally unique names pull followed by push is a no-op
PullThenPushNoOpUniqueNames ==
    (PushedWhatWasPulled /\ NamesGloballyUnique) =>
        /\ last.stmts = <<>>
        /\ last.out = <<>>
        /\ Store = last.pre

\* the candidate entities that name a row of table t: the candidate itself
\* for the pushed station's row, the entries under that normalized_name
\* otherwise
CandidateEntities(t, row) ==
    IF t = "stations" THEN (IF row.id = TargetId THEN {last.cand} ELSE {})
    ELSE IF t = "platforms"
    THEN {e \in Range(CandPlatforms) : e.normalized_name = row.normalized_name}
    ELSE {e \in UNION {Range(GetOr(p, "instruments", <<>>)) : p \in Range(CandPlatforms)} :
             e.normalized_name = row.normalized_name}

AllowListOf(t) ==
    IF t = "stations" THEN Range(station_fields)
    ELSE IF t = "platforms" THEN Range(platform_fields) ELSE Range(instrument_fields)

\* C30: push never overwrites a stored value because the candidate omits
\* the field: for every candidate entity matched with a row and every
\* allow-listed field whose key is absent from that entity, the row keeps
\* its stored value of the field and no update statement on the row carries
\* the field.
C30_OmittedFieldUntouched ==
    PushDone =>
        \A t \in {"stations", "platforms", "instruments"} :
            \A i \in DOMAIN last.pre[t] :
                \A f \in AllowListOf(t) :
                    (\E e \in CandidateEntities(t, last.pre[t][i]) : f \notin DOMAIN e) =>
                        /\ Store[t][i][f] = last.pre[t][i][f]
                        /\ \A k \in DOMAIN last.stmts :
                              (last.stmts[k].table = t /\ last.stmts[k].id = last.pre[t][i].id)
                                  => f \notin DOMAIN last.stmts[k].set

\* a field that every candidate entry under the row's name omits is left
\* alone: an omitted key is never read as None
OmittedByEveryEntry ==
    PushDone =>
        \A t \in {"stations", "platforms", "instruments"} :
            \A i \in DOMAIN last.pre[t] :
                \A f \in AllowListOf(t) :
                    (\A e \in CandidateEntities(t, last.pre[t][i]) : f \notin DOMAIN e) =>
                        /\ Store[t][i][f] = last.pre[t][i][f]
                        /\ \A k \in DOMAIN last.stmts :
                              (last.stmts[k].table = t /\ last.stmts[k].id = last.pre[t][i].id)
                                  => f \notin DOMAIN last.stmts[k].set

\* with globally unique names the field an entry omits is left alone
OmittedFieldUntouchedUniqueNames ==
    (PushDone /\ NamesGloballyUnique) => C30_OmittedFieldUntouched

\* the same candidate pushed once more to the same station, the store
\* answering its lookups as it did the first time
PushedAgain ==
    PushRun(last.cand, TargetId, FALSE, last.firstP, last.firstI,
            stations, platforms, instruments, now, 0)

\* C28: push is idempotent: after a successful real push of a candidate,
\* pushing the same candidate again with no other write in between executes
\* no update statement, returns an update count of 0 and leaves every row,
\* updated_at included, unchanged.
C28_Idempotent ==
    (PushDone /\ ~last.dry_run) =>
        /\ PushedAgain.stmts = <<>>
        /\ PushedAgain.changes.updated = 0
        /\ PushedAgain.stations = stations
        /\ PushedAgain.platforms = platforms
        /\ PushedAgain.instruments = instruments

\* every platform and instrument name of the candidate occurs in it once
CandidateNamesUnique ==
    LET ps == CandPlatforms
        is == [i \in DOMAIN ps |-> GetOr(ps[i], "instruments", <<>>)]
    IN  /\ \A i, j \in DOMAIN ps : ps[i].normalized_name = ps[j].normalized_name => i = j
        /\ \A i, j \in DOMAIN ps : \A k \in DOMAIN is[i], l \in DOMAIN is[j] :
              is[i][k].normalized_name = is[j][l].normalized_name => (i = j /\ k = l)

\* a push whose candidate names each platform and instrument once is
\* idempotent
IdempotentUniqueNames ==
    (PushDone /\ ~last.dry_run /\ CandidateNamesUnique) =>
        /\ PushedAgain.stmts = <<>>
        /\ PushedAgain.stations = stations
        /\ PushedAgain.platforms = platforms
        /\ PushedAgain.instruments = instruments
====
